---- MODULE Spec2Model ----
(***************************************************************************)
(* Model of the paper-tracker background script (background.ts) together   *)
(* with the collaborators it drives: the session service                   *)
(* (utils/session-service), the paper manager (papers/manager) in front of *)
(* the remote object store, and the extended source manager with its       *)
(* custom sources.  The message handlers and the storage listener are      *)
(* translated from background.ts, the registry of source patterns from     *)
(* source-manager-extension.ts and custom-source.ts; the session service,  *)
(* the paper manager and the base classes of the source manager and of the *)
(* sources are modelled from sections 3, 4 and 6 of the design             *)
(* description, because their sources are not part of the tree.            *)
(***************************************************************************)
EXTENDS Integers, Sequences, FiniteSets, TLC

VARIABLES
  now,            \* wall clock, in ms
  storage,        \* chrome.storage.sync: githubToken, githubRepo
  githubToken,    \* background.ts global
  githubRepo,     \* background.ts global
  paperManager,   \* background.ts global: FALSE = null, TRUE = a PaperManager
  sessionService, \* background.ts global: FALSE = null, TRUE = a SessionService
  listening,      \* chrome.runtime.onMessage listener registered
  initPc,         \* position of initialize(): "start", "done" or "failed"
  sessions,       \* every Session value created so far, in creation order
  current,        \* index in sessions of the service's active session, 0 = none
  hbLog,          \* times of the heartbeats recorded on the session started last
  cache,          \* SessionService cache: key -> metadata, or NoMeta
  store,          \* remote object store: the records created, in creation order
  ops,            \* asynchronous handler invocations in flight, in order of arrival
  issued,         \* number of asynchronous handler invocations so far
  lastDone,       \* the asynchronous handler invocation that settled most recently
  notFound,       \* keys on which saveNotes has been answered NotFoundError
  lastEvent,      \* the session message most recently handled
  sourceManager,  \* background.ts global: the extended source manager, NoManager = null
  sourcePatterns, \* chrome.storage.sync: sourcePatterns, <<>> = no value, <<list>> = a value
  answers,        \* the last two identifySource answers since the registry last changed
  defaultRule,    \* the capture the default extraction rule reuses
  changes,        \* number of changes made to the registry since initialize()
  loading,        \* the storage read of loadPatternsFromStorage(): its position and result
  options         \* the options page: its pattern editor, pending validations and status

globalVars == <<storage, githubToken, githubRepo, paperManager, sessionService, listening, initPc>>
storeVars == <<store, ops, issued, lastDone, notFound>>
registryVars == <<sourceManager, sourcePatterns, answers, defaultRule, changes, loading, options>>
vars == <<now, storage, githubToken, githubRepo, paperManager, sessionService, listening,
          initPc, sessions, current, hbLog, cache, store, ops, issued, lastDone, notFound,
          lastEvent, sourceManager, sourcePatterns, answers, defaultRule, changes, loading, options>>

-----------------------------------------------------------------------------
(* Bounds of the model *)

MaxSessions == 2
MaxTime == 90000
MaxOps == 3
MaxBeats == 3
MaxChanges == 2

Durations == {30000, 50000}

(* Liveness threshold of the session service (section 4.4: maxGapMs) *)
MaxGapMs == 40000

SourceIds == {"arxiv"}
PaperIds == {"2301.00001", "2301.00002"}
Keys == [sourceId : SourceIds, paperId : PaperIds]
Titles == {"T1", "T2"}
NoteTexts == {"n1", "n2"}
Ratings == {"thumbsup"}
Tokens == {"", "tok"}
Repos == {"", "repo"}

NoMeta == [sourceId |-> "", paperId |-> "", title |-> "", rating |-> "", notes |-> ""]

Metadata(k, t) ==
  [sourceId |-> k.sourceId, paperId |-> k.paperId, title |-> t, rating |-> "novote", notes |-> ""]

KeyOf(m) == [sourceId |-> m.sourceId, paperId |-> m.paperId]

Min(a, b) == IF a < b THEN a ELSE b

-----------------------------------------------------------------------------
(* Session service (section 4.4) *)

NewSession(k, t) ==
  [sourceId |-> k.sourceId, paperId |-> k.paperId, startedAt |-> t, lastHeartbeatAt |-> t,
   endedAt |-> <<>>, accumulatedActiveMs |-> 0, discarded |-> FALSE]

IsEnded(s) == s.endedAt # <<>>

IsActive(s) == ~IsEnded(s) /\ ~s.discarded

(* getCurrentSession(): index of the Active session, 0 for null *)
getCurrentSession == current

(* variant: the gap is not capped at the liveness threshold *)
AccrueUncapped(s, t) ==
  [s EXCEPT !.accumulatedActiveMs = @ + (t - s.lastHeartbeatAt),
            !.lastHeartbeatAt = t]

(* variant: the heartbeat time is not advanced *)
AccrueStale(s, t) ==
  [s EXCEPT !.accumulatedActiveMs = @ + Min(t - s.lastHeartbeatAt, MaxGapMs)]

(* heartbeat-equivalent accrual on session s at time t *)
Accrue(s, t) ==
  [s EXCEPT !.accumulatedActiveMs = @ + Min(t - s.lastHeartbeatAt, MaxGapMs),
            !.lastHeartbeatAt = t]

(* variant: a stray heartbeat is applied to the session started last *)
recordHeartbeatStray(ss, cur, t) ==
  IF ss = <<>> THEN ss
  ELSE LET c == IF cur = 0 THEN Len(ss) ELSE cur
       IN [ss EXCEPT ![c] = Accrue(ss[c], t)]

(* recordHeartbeat(): no-op when Idle *)
recordHeartbeat(ss, cur, t) ==
  IF cur = 0 THEN ss ELSE [ss EXCEPT ![cur] = Accrue(ss[cur], t)]

(* variant: the session is closed without the last accrual *)
endSessionNoAccrual(ss, cur, t) ==
  IF cur = 0 THEN ss ELSE [ss EXCEPT ![cur].endedAt = <<t>>]

(* endSession(): last accrual, endedAt = now; no-op when Idle/Ended *)
endSession(ss, cur, t) ==
  IF cur = 0 THEN ss ELSE [ss EXCEPT ![cur] = [Accrue(ss[cur], t) EXCEPT !.endedAt = <<t>>]]

(* variant: the new session replaces the Active one without ending it *)
startSessionNoEnd(ss, cur, k, t) ==
  Append(ss, NewSession(k, t))

(* variant: an ended session of the same paper is resumed *)
startSessionResume(ss, cur, k, t) ==
  IF cur = 0 /\ ss # <<>> /\ KeyOf(ss[Len(ss)]) = k /\ IsEnded(ss[Len(ss)])
  THEN Append([ss EXCEPT ![Len(ss)].endedAt = <<t>>, ![Len(ss)].lastHeartbeatAt = t],
              [ss[Len(ss)] EXCEPT !.endedAt = <<>>, !.lastHeartbeatAt = t])
  ELSE Append(endSession(ss, cur, t), NewSession(k, t))

(* startSession(): the Active session, if any, is ended first *)
startSession(ss, cur, k, t) ==
  Append(endSession(ss, cur, t), NewSession(k, t))

(* getPaperMetadata(sourceId?, paperId?): cached copy for the current session or an explicit key *)
getPaperMetadata(c, k) == c[k]

(* storePaperMetadata(metadata) *)
storePaperMetadata(c, m) == [c EXCEPT ![KeyOf(m)] = m]

-----------------------------------------------------------------------------
(* Paper manager (section 4.3) in front of the object store (section 6) *)

NewRecord(k, m) == [key |-> k, data |-> m, annotations |-> <<>>]

(* store.get(key): index of the record found for k, 0 for notFound *)
Lookup(st, k) ==
  IF \E i \in DOMAIN st : st[i].key = k
  THEN CHOOSE i \in DOMAIN st : st[i].key = k /\ \A j \in DOMAIN st : st[j].key = k => i <= j
  ELSE 0

(* variant: the record found is overwritten with the caller's metadata *)
getOrCreateFoundOverwrite(st, idx, m) == [st EXCEPT ![idx].data = m]

(* getOrCreatePaper when get(key) found the record at idx: the store is left as it is *)
getOrCreateFound(st, idx, m) == st

(* store.create(key, initialValue) *)
StoreCreate(st, k, m) == Append(st, NewRecord(k, m))

(* variant: the event replaces the history *)
StoreAppendReplace(st, i, ev) == [st EXCEPT ![i].annotations = <<ev>>]

(* store.update(key, appendEvent) on the record at index i *)
StoreAppend(st, i, ev) == [st EXCEPT ![i].annotations = Append(@, ev)]

NewOp(kind, k, m, notes, pc, response, error) ==
  [kind |-> kind, key |-> k, meta |-> m, notes |-> notes, pc |-> pc,
   outcome |-> IF pc = "done" THEN (IF response = "failure" THEN "refused" ELSE "ok") ELSE "pending",
   result |-> <<>>, response |-> response, error |-> error,
   metaLive |-> (pc \in {"update", "rate"})]

NoOp == NewOp("none", KeyOf(NoMeta), NoMeta, "", "done", "none", "")

RemoveAt(seq, i) == [j \in 1..(Len(seq) - 1) |-> IF j < i THEN seq[j] ELSE seq[j + 1]]

(* the cache entry of key k is replaced: handlers holding the old object no longer reach the cache *)
Invalidate(os, k) ==
  [i \in DOMAIN os |-> IF os[i].key = k THEN [os[i] EXCEPT !.metaLive = FALSE] ELSE os[i]]

-----------------------------------------------------------------------------
(* Regular expressions of source patterns.  A URL is the sequence of its    *)
(* '/'-separated parts after the scheme; an expression is a sequence of     *)
(* elements, one per part, each with the set of parts it accepts.  The URLs *)
(* and expressions below are such that a match begins and ends on a part.   *)

Lit(s) == [set |-> {s}, cap |-> FALSE, many |-> FALSE]
NoCap(S) == [set |-> S, cap |-> FALSE, many |-> FALSE]
Grp(S) == [set |-> S, cap |-> TRUE, many |-> FALSE]
GrpMany(S) == [set |-> S, cap |-> TRUE, many |-> TRUE]

(* new RegExp(string, 'i') *)
RegExp(elems) == [ok |-> TRUE, elems |-> elems]

(* a string new RegExp(...) throws on *)
Unparseable == [ok |-> FALSE, elems |-> <<>>]

(* flag 'i': parts are compared without regard to case *)
Lower(s) == CASE s = "ARXIV.ORG" -> "arxiv.org" [] s = "ABS" -> "abs" [] OTHER -> s

AbsPdf == {"abs", "pdf"}
NumDot == {"2301.00001", "10.1000"}
WordDash == {"abs", "pdf", "paper", "p-1", "blog", "post", "182"}
DoiChars == WordDash \cup NumDot \cup {"10.1000", "arxiv.org", "doi.org", "example.org"}

Urls ==
  {<<"arxiv.org", "abs", "2301.00001">>, <<"ARXIV.ORG", "ABS", "2301.00001">>,
   <<"doi.org", "10.1000", "182">>, <<"example.org", "paper", "p-1">>,
   <<"example.org", "blog", "post">>}

(* the elements of re fit the parts of url from position p on *)
FitsAt(re, url, p) ==
  /\ p + Len(re.elems) - 1 <= Len(url)
  /\ \A j \in DOMAIN re.elems : Lower(url[p + j - 1]) \in re.elems[j].set

(* last part of the match beginning at p: a repeated last element is greedy *)
MatchEnd(re, url, p) ==
  LET n == Len(re.elems)
      last == p + n - 1
  IN IF re.elems[n].many
     THEN CHOOSE e \in last..Len(url) :
            /\ \A q \in last..e : Lower(url[q]) \in re.elems[n].set
            /\ (e = Len(url) \/ Lower(url[e + 1]) \notin re.elems[n].set)
     ELSE last

RECURSIVE GroupsFrom(_, _, _, _)
(* the texts captured by the groups of re from element j on, in order *)
GroupsFrom(re, url, p, j) ==
  IF j > Len(re.elems) THEN <<>>
  ELSE (IF re.elems[j].cap
        THEN <<IF re.elems[j].many THEN SubSeq(url, p + j - 1, MatchEnd(re, url, p))
               ELSE <<url[p + j - 1]>> >>
        ELSE <<>>) \o GroupsFrom(re, url, p, j + 1)

(* url.match(re): <<>> for null, else the whole match followed by the groups;     *)
(* match[k] of the script is Match(url, re)[k + 1], match.length is the length.   *)
Match(url, re) ==
  IF \E p \in DOMAIN url : FitsAt(re, url, p)
  THEN LET p == CHOOSE p \in DOMAIN url :
                  FitsAt(re, url, p) /\ \A q \in DOMAIN url : FitsAt(re, url, q) => p <= q
       IN <<SubSeq(url, p, MatchEnd(re, url, p))>> \o GroupsFrom(re, url, p, 1)
  ELSE <<>>

(* arxiv\.org\/(abs|pdf)\/([0-9]+\.[0-9]+) *)
ArxivRe == RegExp(<<Lit("arxiv.org"), Grp(AbsPdf), Grp(NumDot)>>)

(* doi\.org\/([\w\.\-\/]+) *)
DoiRe == RegExp(<<Lit("doi.org"), GrpMany(DoiChars)>>)

(* .*\/paper\/([\w-]+).* and \/paper\/([\w-]+) *)
PaperRe == RegExp(<<Lit("paper"), Grp(WordDash)>>)

DEFAULT_PATTERNS ==
  <<[id |-> "arxiv", urlPattern |-> ArxivRe, idRegex |-> ArxivRe],
    [id |-> "doi", urlPattern |-> DoiRe, idRegex |-> DoiRe],
    [id |-> "paper", urlPattern |-> PaperRe, idRegex |-> PaperRe]>>

(* user patterns: arxiv\.org\/abs\/([0-9]+\.[0-9]+) under the id of a default,    *)
(* \/(abs|pdf)\/([0-9]+\.[0-9]+) with idRegex \/(?:abs|pdf)\/([0-9]+\.[0-9]+),    *)
(* an idRegex without a group (arxiv\.org), and unparseable expressions           *)
UserArxiv ==
  [id |-> "arxiv",
   urlPattern |-> RegExp(<<Lit("arxiv.org"), Lit("abs"), Grp(NumDot)>>),
   idRegex |-> RegExp(<<Lit("arxiv.org"), Lit("abs"), Grp(NumDot)>>)]

UserMirror ==
  [id |-> "mirror",
   urlPattern |-> RegExp(<<Grp(AbsPdf), Grp(NumDot)>>),
   idRegex |-> RegExp(<<NoCap(AbsPdf), Grp(NumDot)>>)]

UserPlain == [id |-> "plain", urlPattern |-> ArxivRe, idRegex |-> RegExp(<<Lit("arxiv.org")>>)]

UserBroken == [id |-> "broken", urlPattern |-> ArxivRe, idRegex |-> Unparseable]

UserBadUrl == [id |-> "badurl", urlPattern |-> Unparseable, idRegex |-> ArxivRe]

UserPatterns == {UserArxiv, UserMirror, UserPlain, UserBroken, UserBadUrl}

(* values of the sourcePatterns key written by the options page *)
PatternLists ==
  {<<>>, DEFAULT_PATTERNS, <<UserMirror, DEFAULT_PATTERNS[1]>>,
   <<DEFAULT_PATTERNS[1], UserArxiv>>}

DefaultRules == {"first", "last"}

-----------------------------------------------------------------------------
(* Source integrations and the extended source manager.  A source is given  *)
(* by the pattern it was created from; a paper id is the captured text, as  *)
(* the sequence of its parts, and <<>> stands for null.                     *)

(* canHandleUrl(url): the source's urlPatterns match *)
canHandleUrl(source, url) == Match(url, source.urlPattern) # <<>>

(* BaseSourceIntegration.extractPaperId: the default rule reuses a capture of *)
(* the url pattern; which one is left to the implementation (defaultRule)     *)
baseExtractPaperId(source, url) ==
  LET match == Match(url, source.urlPattern)
  IN IF Len(match) > 1
     THEN (IF defaultRule = "first" THEN match[2] ELSE match[Len(match)])
     ELSE <<>>

(* variant: the last capture group is returned *)
extractPaperIdLastGroup(source, url) ==
  LET match == IF source.idRegex.ok THEN Match(url, source.idRegex) ELSE <<>>
  IN IF source.idRegex.ok /\ match # <<>> /\ Len(match) > 1
     THEN match[Len(match)]
     ELSE baseExtractPaperId(source, url)

(* variant: no id is returned when the idRegex gives none *)
extractPaperIdNoFallback(source, url) ==
  LET match == IF source.idRegex.ok THEN Match(url, source.idRegex) ELSE <<>>
  IN IF source.idRegex.ok /\ match # <<>> /\ Len(match) > 1
     THEN match[2]
     ELSE <<>>

(* CustomSourceIntegration.extractPaperId: match[1] of the idRegex, else the default rule *)
extractPaperId(source, url) ==
  LET match == IF source.idRegex.ok THEN Match(url, source.idRegex) ELSE <<>>
  IN IF source.idRegex.ok /\ match # <<>> /\ Len(match) > 1
     THEN match[2]
     ELSE baseExtractPaperId(source, url)

(* let sourceManager = null *)
NoManager == [created |-> FALSE, sources |-> <<>>, customSourceIds |-> {}, customSources |-> <<>>]

(* chrome.storage.sync.get('sourcePatterns') of loadPatternsFromStorage(): not issued *)
NoRead == [pc |-> "idle", value |-> <<>>, ok |-> TRUE]

(* the options page is not open *)
NoOptions == [open |-> FALSE]

(* new ExtendedSourceManager(DEFAULT_PATTERNS) *)
NewManager == [NoManager EXCEPT !.created = TRUE]

(* SourceIntegrationManager.registerSource: a source with the same id is replaced *)
registerSource(sources, source) ==
  Append(SelectSeq(sources, LAMBDA s : s.id # source.id), source)

(* variant: the source is added next to the one registered under the same id *)
MapSetKeepBoth(map, source) == Append(map, source)

(* Map.set(source.id, source): the value of an existing key is replaced in its place *)
MapSet(map, source) ==
  IF \E i \in DOMAIN map : map[i].id = source.id
  THEN [i \in DOMAIN map |-> IF map[i].id = source.id THEN source ELSE map[i]]
  ELSE Append(map, source)

(* registerCustomSource(pattern): nothing is registered when the constructor throws *)
registerCustomSource(m, pattern) ==
  IF ~pattern.urlPattern.ok THEN m
  ELSE [m EXCEPT !.customSourceIds = @ \cup {pattern.id},
                 !.customSources = MapSet(@, pattern),
                 !.sources = registerSource(@, pattern)]

(* clearCustomSources(): the parent's map of sources is out of reach and keeps its entries *)
clearCustomSources(m) ==
  [m EXCEPT !.customSources = SelectSeq(@, LAMBDA s : s.id \notin m.customSourceIds),
            !.customSourceIds = {}]

RECURSIVE RegisterAll(_, _)
(* for (const pattern of patterns) this.registerCustomSource(pattern) *)
RegisterAll(m, patterns) ==
  IF patterns = <<>> THEN m
  ELSE RegisterAll(registerCustomSource(m, Head(patterns)), Tail(patterns))

(* loadPatternsFromStorage(): stored is <<>> when the key is absent, <<list>> otherwise *)
loadPatternsFromStorage(m, stored, readOk) ==
  IF readOk
  THEN RegisterAll(clearCustomSources(m), IF stored = <<>> THEN DEFAULT_PATTERNS ELSE stored[1])
  ELSE RegisterAll(m, DEFAULT_PATTERNS)

(* variant: the new patterns are registered while the old custom set is still held *)
handleStorageChangesKeepOld(m, newValue) ==
  RegisterAll(m, IF newValue = <<>> THEN <<>> ELSE newValue[1])

(* handleStorageChanges(changes) for a change of sourcePatterns: newValue || [] *)
handleStorageChanges(m, newValue) ==
  RegisterAll(clearCustomSources(m), IF newValue = <<>> THEN <<>> ELSE newValue[1])

(* getAllSources(): parent sources not overridden, then the custom sources *)
getAllSources(m) ==
  SelectSeq(m.sources, LAMBDA s : s.id \notin m.customSourceIds) \o m.customSources

(* variant: the last source that can handle url *)
LastMatching(srcs, url) ==
  IF \E i \in DOMAIN srcs : canHandleUrl(srcs[i], url)
  THEN CHOOSE i \in DOMAIN srcs :
         canHandleUrl(srcs[i], url) /\ \A j \in DOMAIN srcs : canHandleUrl(srcs[j], url) => i >= j
  ELSE 0

(* index of the first source that can handle url, 0 when there is none *)
FirstMatching(srcs, url) ==
  IF \E i \in DOMAIN srcs : canHandleUrl(srcs[i], url)
  THEN CHOOSE i \in DOMAIN srcs :
         canHandleUrl(srcs[i], url) /\ \A j \in DOMAIN srcs : canHandleUrl(srcs[j], url) => i <= j
  ELSE 0

(* sourceManager.extractPaperId(url): <<>> for null, else <<[sourceId, paperId]>> *)
sourceManagerExtractPaperId(m, url) ==
  LET srcs == getAllSources(m)
      i == FirstMatching(srcs, url)
  IN IF i = 0 THEN <<>>
     ELSE LET paperId == extractPaperId(srcs[i], url)
          IN IF paperId = <<>> THEN <<>>
             ELSE <<[sourceId |-> srcs[i].id, paperId |-> paperId]>>

(* variant: an unmatched URL is given a default source and id *)
identifyAnswerDefaulted(result) ==
  IF result # <<>>
  THEN [success |-> TRUE, sourceId |-> result[1].sourceId, paperId |-> result[1].paperId,
        error |-> ""]
  ELSE [success |-> TRUE, sourceId |-> "unknown", paperId |-> <<"unknown">>, error |-> ""]

(* handleIdentifySource: the response sent for the manager's result *)
identifyAnswer(result) ==
  IF result # <<>>
  THEN [success |-> TRUE, sourceId |-> result[1].sourceId, paperId |-> result[1].paperId,
        error |-> ""]
  ELSE [success |-> FALSE, sourceId |-> "", paperId |-> <<>>,
        error |-> "No matching source pattern for URL"]

(* handleIdentifySource(url, sendResponse): the response for url under manager m *)
identifyResponse(m, url) ==
  IF ~m.created
  THEN [success |-> FALSE, sourceId |-> "", paperId |-> <<>>,
        error |-> "Source manager not initialized"]
  ELSE identifyAnswer(sourceManagerExtractPaperId(m, url))

-----------------------------------------------------------------------------

Init ==
  /\ now = 0
  /\ storage \in [githubToken : Tokens, githubRepo : Repos]
  /\ githubToken = ""
  /\ githubRepo = ""
  /\ paperManager = FALSE
  /\ sessionService = FALSE
  /\ listening = FALSE
  /\ initPc = "start"
  /\ sessions = <<>>
  /\ current = 0
  /\ hbLog = <<>>
  /\ cache = [k \in Keys |-> NoMeta]
  /\ store = <<>>
  /\ ops = <<>>
  /\ issued = 0
  /\ lastDone = NoOp
  /\ notFound = {}
  /\ lastEvent = [type |-> "none", hadActive |-> FALSE]
  /\ sourceManager = NoManager
  /\ sourcePatterns = <<>>
  /\ answers = <<>>
  /\ defaultRule = "first"
  /\ changes = 0
  /\ loading = NoRead
  /\ options = NoOptions

(* new SessionService(...): the previous service, its session and its cache are dropped *)
DropService ==
  /\ sessions' = [i \in DOMAIN sessions |->
                    IF i = current THEN [sessions[i] EXCEPT !.discarded = TRUE] ELSE sessions[i]]
  /\ current' = 0
  /\ hbLog' = <<>>
  /\ cache' = [k \in Keys |-> NoMeta]
  /\ ops' = [i \in DOMAIN ops |-> [ops[i] EXCEPT !.metaLive = FALSE]]

(* initialize() after initializeSources(): reads the credentials, builds the services, *)
(* registers the listeners; or the read fails and the catch block logs                *)
initializeServices ==
  /\ \/ /\ githubToken' = storage.githubToken
        /\ githubRepo' = storage.githubRepo
        /\ paperManager' = IF storage.githubToken # "" /\ storage.githubRepo # ""
                           THEN TRUE ELSE paperManager
        /\ sessionService' = TRUE
        /\ DropService
        /\ listening' = TRUE
        /\ initPc' = "done"
        /\ UNCHANGED lastEvent
     \/ /\ initPc' = "failed"
        /\ UNCHANGED lastEvent
        /\ UNCHANGED <<githubToken, githubRepo, paperManager, sessionService, listening,
                       sessions, current, hbLog, cache, ops>>
  /\ UNCHANGED <<now, storage, store, issued, lastDone, notFound>>

(* initialize() when nothing else runs while it is suspended: loads the source *)
(* patterns, then goes on with the credentials and the services                *)
initialize ==
  /\ initPc = "start"
  /\ \E readOk \in BOOLEAN :
       sourceManager' = loadPatternsFromStorage(NewManager, sourcePatterns, readOk)
  /\ UNCHANGED <<sourcePatterns, answers, defaultRule, changes, loading, options>>
  /\ initializeServices

(* initializeSources() up to the await in loadPatternsFromStorage(): the manager is *)
(* assigned to the global and the read of sourcePatterns is issued                  *)
initializeSources ==
  /\ initPc = "start"
  /\ initPc' = "sources"
  /\ sourceManager' = NewManager
  /\ loading' = [NoRead EXCEPT !.pc = "reading"]
  /\ UNCHANGED <<now, storage, githubToken, githubRepo, paperManager, sessionService, listening>>
  /\ UNCHANGED <<sessions, current, hbLog, cache, storeVars, lastEvent>>
  /\ UNCHANGED <<sourcePatterns, answers, defaultRule, changes, options>>

(* chrome.storage.sync.get('sourcePatterns') is served: the value held now, or an error *)
storageGet ==
  /\ loading.pc = "reading"
  /\ \E readOk \in BOOLEAN :
       loading' = [pc |-> "served", value |-> IF readOk THEN sourcePatterns ELSE <<>>,
                   ok |-> readOk]
  /\ UNCHANGED <<now, globalVars, sessions, current, hbLog, cache, storeVars, lastEvent>>
  /\ UNCHANGED <<sourceManager, sourcePatterns, answers, defaultRule, changes, options>>

(* loadPatternsFromStorage() resumes with the result of its read *)
resumeLoadPatterns ==
  /\ loading.pc = "served"
  /\ sourceManager' = loadPatternsFromStorage(sourceManager, loading.value, loading.ok)
  /\ loading' = [loading EXCEPT !.pc = "done"]
  /\ answers' = <<>>
  /\ UNCHANGED <<now, globalVars, sessions, current, hbLog, cache, storeVars, lastEvent>>
  /\ UNCHANGED <<sourcePatterns, defaultRule, changes, options>>

(* initialize() resumes once initializeSources() has returned *)
resumeInitialize ==
  /\ initPc = "sources"
  /\ loading.pc = "done"
  /\ UNCHANGED registryVars
  /\ initializeServices

(* chrome.storage.onChanged listener: credentials part *)
onStorageChanged(newStorage) ==
  /\ newStorage # storage
  /\ storage' = newStorage
  /\ githubToken' = IF newStorage.githubToken # storage.githubToken
                    THEN newStorage.githubToken ELSE githubToken
  /\ githubRepo' = IF newStorage.githubRepo # storage.githubRepo
                   THEN newStorage.githubRepo ELSE githubRepo
  /\ IF githubToken' # "" /\ githubRepo' # ""
     THEN /\ paperManager' = TRUE
          /\ sessionService' = TRUE
          /\ DropService
     ELSE UNCHANGED <<paperManager, sessionService, sessions, current, hbLog, cache, ops>>
  /\ UNCHANGED lastEvent
  /\ UNCHANGED <<now, listening, initPc, store, issued, lastDone, notFound>>
  /\ UNCHANGED registryVars

(* time passes *)
Tick(d) ==
  /\ now + d <= MaxTime
  /\ now' = now + d
  /\ UNCHANGED lastEvent
  /\ UNCHANGED <<globalVars, sessions, current, hbLog, cache, storeVars>>
  /\ UNCHANGED registryVars

(* message startSession *)
handleStartSession(k) ==
  /\ listening
  /\ Len(sessions) < MaxSessions
  /\ IF ~sessionService
     THEN UNCHANGED <<sessions, current, hbLog, cache>>
     ELSE LET existingMetadata == getPaperMetadata(cache, k)
          IN /\ sessions' = startSession(sessions, current, k, now)
             /\ current' = Len(sessions')
             /\ hbLog' = <<>>
             /\ cache' = IF existingMetadata # NoMeta
                         THEN storePaperMetadata(cache, existingMetadata) ELSE cache
  /\ lastEvent' = [type |-> "startSession", hadActive |-> (current # 0)]
  /\ UNCHANGED <<now, globalVars, storeVars>>
  /\ UNCHANGED registryVars

(* message sessionHeartbeat *)
handleSessionHeartbeat ==
  /\ listening
  /\ current = 0 \/ Len(hbLog) < MaxBeats
  /\ IF ~sessionService
     THEN UNCHANGED <<sessions, hbLog>>
     ELSE /\ sessions' = recordHeartbeat(sessions, current, now)
          /\ hbLog' = IF current = 0 THEN hbLog ELSE Append(hbLog, now)
  /\ lastEvent' = [type |-> "sessionHeartbeat", hadActive |-> (current # 0)]
  /\ UNCHANGED <<now, globalVars, current, cache, storeVars>>
  /\ UNCHANGED registryVars

(* message endSession *)
handleEndSession(reason) ==
  /\ listening
  /\ IF sessionService /\ getCurrentSession # 0
     THEN /\ sessions' = endSession(sessions, current, now)
          /\ current' = 0
     ELSE UNCHANGED <<sessions, current>>
  /\ lastEvent' = [type |-> "endSession", hadActive |-> (current # 0)]
  /\ UNCHANGED <<now, globalVars, hbLog, cache, storeVars>>
  /\ UNCHANGED registryVars

Reasons == {"navigation", "user_action"}

-----------------------------------------------------------------------------
(* Asynchronous handlers *)

(* a handler invocation op arrives: it is in flight, or it has settled at once *)
Issue(os, op) ==
  /\ issued < MaxOps
  /\ issued' = issued + 1
  /\ IF op.pc = "done"
     THEN ops' = os /\ lastDone' = op
     ELSE ops' = Append(os, op) /\ UNCHANGED lastDone

(* the handler invocation at index i settles as op *)
Finish(i, op) ==
  /\ ops' = RemoveAt(ops, i)
  /\ lastDone' = op
  /\ UNCHANGED issued

(* message paperMetadata: the listener answers success at once, the handler runs on *)
handlePaperMetadata(m) ==
  /\ listening
  /\ cache' = IF sessionService THEN storePaperMetadata(cache, m) ELSE cache
  /\ Issue(IF sessionService THEN Invalidate(ops, KeyOf(m)) ELSE ops,
           NewOp("paperMetadata", KeyOf(m), m, "",
                 IF paperManager THEN "get" ELSE "done", "success", ""))
  /\ UNCHANGED <<now, globalVars, sessions, current, hbLog, store, lastEvent, notFound>>
  /\ UNCHANGED registryVars

(* message manualPaperLog: the listener answers when the handler settles *)
handleManualPaperLog(m) ==
  /\ listening
  /\ cache' = IF sessionService THEN storePaperMetadata(cache, m) ELSE cache
  /\ Issue(IF sessionService THEN Invalidate(ops, KeyOf(m)) ELSE ops,
           NewOp("manualPaperLog", KeyOf(m), m, "",
                 IF paperManager THEN "get" ELSE "done",
                 IF paperManager THEN "none" ELSE "success", ""))
  /\ UNCHANGED <<now, globalVars, sessions, current, hbLog, store, lastEvent, notFound>>
  /\ UNCHANGED registryVars

(* a handler's answer once its getOrCreatePaper settled *)
Settle(op, outcome, res) ==
  [op EXCEPT !.pc = "done", !.outcome = outcome, !.result = res,
             !.response = IF op.kind = "manualPaperLog"
                          THEN (IF outcome = "ok" THEN "success" ELSE "failure")
                          ELSE @,
             !.error = IF op.kind = "manualPaperLog" /\ outcome # "ok" THEN outcome ELSE @]

(* getOrCreatePaper, first store call: get(key) *)
getOrCreateLookup(i) ==
  /\ i \in DOMAIN ops
  /\ ops[i].pc = "get"
  /\ \/ LET idx == Lookup(store, ops[i].key)
        IN IF idx # 0
           THEN /\ store' = getOrCreateFound(store, idx, ops[i].meta)
                /\ Finish(i, Settle(ops[i], "ok", <<store'[idx]>>))
           ELSE /\ ops' = [ops EXCEPT ![i].pc = "create"]
                /\ UNCHANGED <<store, lastDone, issued>>
     \/ /\ Finish(i, Settle(ops[i], "RemoteUnavailableError", <<>>))
        /\ UNCHANGED store
  /\ UNCHANGED <<now, globalVars, sessions, current, hbLog, cache, lastEvent, notFound>>
  /\ UNCHANGED registryVars

(* getOrCreatePaper, second store call: create(key, metadata) *)
getOrCreateCreate(i) ==
  /\ i \in DOMAIN ops
  /\ ops[i].pc = "create"
  /\ \/ /\ store' = StoreCreate(store, ops[i].key, ops[i].meta)
        /\ Finish(i, Settle(ops[i], "ok", <<NewRecord(ops[i].key, ops[i].meta)>>))
     \/ /\ Finish(i, Settle(ops[i], "RemoteUnavailableError", <<>>))
        /\ UNCHANGED store
  /\ UNCHANGED <<now, globalVars, sessions, current, hbLog, cache, lastEvent, notFound>>
  /\ UNCHANGED registryVars

(* message saveNotes: guards, then logAnnotation on the current session's key *)
handleSaveNotes(notes) ==
  /\ listening
  /\ LET k == IF current # 0 THEN KeyOf(sessions[current]) ELSE KeyOf(NoMeta)
         refusal == IF ~paperManager \/ ~sessionService THEN "Services not initialized"
                    ELSE IF getCurrentSession = 0 THEN "No current session"
                    ELSE IF getPaperMetadata(cache, k) = NoMeta THEN "No paper metadata available"
                    ELSE ""
     IN Issue(ops, IF refusal # ""
                   THEN NewOp("saveNotes", k, NoMeta, notes, "done", "failure", refusal)
                   ELSE NewOp("saveNotes", k, NoMeta, notes, "update", "none", ""))
  /\ UNCHANGED <<now, globalVars, sessions, current, hbLog, cache, store, lastEvent, notFound>>
  /\ UNCHANGED registryVars

(* logAnnotation(sourceId, paperId, kind, value): the ways the call can settle *)
logAnnotationOutcomes(st, k) ==
  (IF Lookup(st, k) # 0 THEN {"ok"} ELSE {"NotFoundError"}) \cup {"RemoteUnavailableError"}

(* logAnnotation: the store after the call settled with outcome *)
logAnnotation(st, k, ev, outcome) ==
  IF outcome = "ok" THEN StoreAppend(st, Lookup(st, k), ev) ELSE st

(* variant: the catch branch answers success as well *)
saveNotesSettleSwallow(op, outcome) ==
  [op EXCEPT !.pc = "done", !.outcome = outcome, !.response = "success"]

(* handleSaveNotes after the await: the answer sent to the caller *)
saveNotesSettle(op, outcome) ==
  [op EXCEPT !.pc = "done", !.outcome = outcome,
             !.response = IF outcome = "ok" THEN "success" ELSE "failure",
             !.error = IF outcome = "ok" THEN "" ELSE outcome]

(* variant: the notes are written to the cached metadata before the outcome is known *)
resumeSaveNotesEager(i) ==
  /\ i \in DOMAIN ops
  /\ ops[i].pc = "update"
  /\ \E outcome \in logAnnotationOutcomes(store, ops[i].key) :
       /\ store' = logAnnotation(store, ops[i].key,
                                 [kind |-> "notes", value |-> ops[i].notes, timestamp |-> now],
                                 outcome)
       /\ cache' = IF ops[i].metaLive
                   THEN [cache EXCEPT ![ops[i].key].notes = ops[i].notes] ELSE cache
       /\ Finish(i, saveNotesSettle(ops[i], outcome))
       /\ notFound' = IF outcome = "NotFoundError" THEN notFound \cup {ops[i].key} ELSE notFound
  /\ UNCHANGED <<now, globalVars, sessions, current, hbLog, lastEvent>>
  /\ UNCHANGED registryVars

(* handleSaveNotes resumes when logAnnotation settles *)
resumeSaveNotes(i) ==
  /\ i \in DOMAIN ops
  /\ ops[i].pc = "update"
  /\ \E outcome \in logAnnotationOutcomes(store, ops[i].key) :
       /\ store' = logAnnotation(store, ops[i].key,
                                 [kind |-> "notes", value |-> ops[i].notes, timestamp |-> now],
                                 outcome)
       /\ cache' = IF outcome = "ok" /\ ops[i].metaLive
                   THEN [cache EXCEPT ![ops[i].key].notes = ops[i].notes] ELSE cache
       /\ Finish(i, saveNotesSettle(ops[i], outcome))
       /\ notFound' = IF outcome = "NotFoundError" THEN notFound \cup {ops[i].key} ELSE notFound
  /\ UNCHANGED <<now, globalVars, sessions, current, hbLog, lastEvent>>
  /\ UNCHANGED registryVars

(* message updateRating: guards, then updateRating on the current session's key *)
handleUpdateRating(rating) ==
  /\ listening
  /\ LET k == IF current # 0 THEN KeyOf(sessions[current]) ELSE KeyOf(NoMeta)
         refusal == IF ~paperManager \/ ~sessionService THEN "Services not initialized"
                    ELSE IF getCurrentSession = 0 THEN "No current session"
                    ELSE IF getPaperMetadata(cache, k) = NoMeta THEN "No paper metadata available"
                    ELSE ""
     IN Issue(ops, IF refusal # ""
                   THEN NewOp("updateRating", k, NoMeta, rating, "done", "failure", refusal)
                   ELSE NewOp("updateRating", k, getPaperMetadata(cache, k), rating, "rate",
                              "none", ""))
  /\ UNCHANGED <<now, globalVars, sessions, current, hbLog, cache, store, lastEvent, notFound>>
  /\ UNCHANGED registryVars

(* updateRating(sourceId, paperId, rating, metadata): an annotation of kind rating *)
updateRating(st, k, rating, t, outcome) ==
  logAnnotation(st, k, [kind |-> "rating", value |-> rating, timestamp |-> t], outcome)

(* variant: the catch branch answers success as well *)
updateRatingSettleSwallow(op, outcome) ==
  [op EXCEPT !.pc = "done", !.outcome = outcome, !.response = "success"]

(* handleUpdateRating after the await: the answer sent to the caller *)
updateRatingSettle(op, outcome) ==
  [op EXCEPT !.pc = "done", !.outcome = outcome,
             !.response = IF outcome = "ok" THEN "success" ELSE "failure",
             !.error = IF outcome = "ok" THEN "" ELSE outcome]

(* variant: the rating is written to the metadata of the session current at that time *)
ratingWriteBackCurrent(c, op) ==
  IF current = 0 THEN c ELSE [c EXCEPT ![KeyOf(sessions[current])].rating = op.notes]

(* metadata.rating = rating: the object read before the await, cached under the op's key *)
ratingWriteBack(c, op) ==
  IF op.metaLive THEN [c EXCEPT ![op.key].rating = op.notes] ELSE c

(* handleUpdateRating resumes when updateRating settles *)
resumeUpdateRating(i) ==
  /\ i \in DOMAIN ops
  /\ ops[i].pc = "rate"
  /\ \E outcome \in logAnnotationOutcomes(store, ops[i].key) :
       /\ store' = updateRating(store, ops[i].key, ops[i].notes, now, outcome)
       /\ cache' = IF outcome = "ok" THEN ratingWriteBack(cache, ops[i]) ELSE cache
       /\ Finish(i, updateRatingSettle(ops[i], outcome))
  /\ UNCHANGED <<now, globalVars, sessions, current, hbLog, lastEvent, notFound>>
  /\ UNCHANGED registryVars

(* the store call of updateRating reaches the store: the event is appended, or the *)
(* call fails; the answer is still on its way                                      *)
applyUpdateRating(i) ==
  /\ i \in DOMAIN ops
  /\ ops[i].pc = "rate"
  /\ \E outcome \in logAnnotationOutcomes(store, ops[i].key) :
       /\ store' = updateRating(store, ops[i].key, ops[i].notes, now, outcome)
       /\ ops' = [ops EXCEPT ![i].pc = "rated", ![i].outcome = outcome]
  /\ UNCHANGED <<now, globalVars, sessions, current, hbLog, cache, lastEvent>>
  /\ UNCHANGED <<issued, lastDone, notFound>>
  /\ UNCHANGED registryVars

(* the answer of the store arrives and handleUpdateRating resumes *)
resolveUpdateRating(i) ==
  /\ i \in DOMAIN ops
  /\ ops[i].pc = "rated"
  /\ cache' = IF ops[i].outcome = "ok" THEN ratingWriteBack(cache, ops[i]) ELSE cache
  /\ Finish(i, updateRatingSettle(ops[i], ops[i].outcome))
  /\ UNCHANGED <<now, globalVars, sessions, current, hbLog, store, lastEvent, notFound>>
  /\ UNCHANGED registryVars

SessionNext ==
  \/ initialize
  \/ \E ns \in [githubToken : Tokens, githubRepo : Repos] : onStorageChanged(ns)
  \/ \E d \in Durations : Tick(d)
  \/ \E k \in Keys : handleStartSession(k)
  \/ handleSessionHeartbeat
  \/ \E r \in Reasons : handleEndSession(r)

Spec == Init /\ [][SessionNext]_vars

(* the services, the sessions and the store once initialize() has read the credentials *)
(* with a repository set                                                              *)
ServicesReady ==
  /\ now = 0
  /\ storage \in [githubToken : Tokens, githubRepo : Repos \ {""}]
  /\ githubToken = storage.githubToken
  /\ githubRepo = storage.githubRepo
  /\ paperManager = (storage.githubToken # "" /\ storage.githubRepo # "")
  /\ sessionService = TRUE
  /\ listening = TRUE
  /\ initPc = "done"
  /\ sessions = <<>>
  /\ current = 0
  /\ hbLog = <<>>
  /\ cache = [k \in Keys |-> NoMeta]
  /\ store = <<>>
  /\ ops = <<>>
  /\ issued = 0
  /\ lastDone = NoOp
  /\ notFound = {}
  /\ lastEvent = [type |-> "none", hadActive |-> FALSE]

(* the states initialize() leaves when storage holds no source patterns *)
StoreInit ==
  /\ ServicesReady
  /\ sourceManager = loadPatternsFromStorage(NewManager, <<>>, TRUE)
  /\ sourcePatterns = <<>>
  /\ answers = <<>>
  /\ defaultRule = "first"
  /\ changes = 0
  /\ loading = NoRead
  /\ options = NoOptions

(* paper records: concurrent getOrCreatePaper calls *)
RecordNext ==
  \/ \E k \in Keys, t \in Titles : handlePaperMetadata(Metadata(k, t))
  \/ \E k \in Keys, t \in Titles : handleManualPaperLog(Metadata(k, t))
  \/ \E i \in 1..MaxOps : getOrCreateLookup(i)
  \/ \E i \in 1..MaxOps : getOrCreateCreate(i)

RecordSpec == StoreInit /\ [][RecordNext]_vars

(* annotations: notes and ratings saved on the paper of the current session *)
AnnotateNext ==
  \/ \E k \in Keys : handleStartSession(k)
  \/ \E k \in Keys : handlePaperMetadata(Metadata(k, "T1"))
  \/ \E n \in NoteTexts : handleSaveNotes(n)
  \/ \E r \in Ratings : handleUpdateRating(r)
  \/ \E i \in 1..MaxOps : getOrCreateLookup(i)
  \/ \E i \in 1..MaxOps : getOrCreateCreate(i)
  \/ \E i \in 1..MaxOps : resumeSaveNotes(i)
  \/ \E i \in 1..MaxOps : resumeUpdateRating(i)

AnnotateSpec == StoreInit /\ [][AnnotateNext]_vars

(* ratings a user may give *)
RatingChoices == {"thumbsup", "thumbsdown"}

(* ratings of one paper: updateRating requests in flight at once, the store reached *)
(* and the answers delivered in any order                                           *)
RatingNext ==
  \/ handleStartSession([sourceId |-> "arxiv", paperId |-> "2301.00001"])
  \/ handlePaperMetadata(Metadata([sourceId |-> "arxiv", paperId |-> "2301.00001"], "T1"))
  \/ \E i \in 1..MaxOps : getOrCreateLookup(i)
  \/ \E i \in 1..MaxOps : getOrCreateCreate(i)
  \/ \E r \in RatingChoices : handleUpdateRating(r)
  \/ \E i \in 1..MaxOps : applyUpdateRating(i)
  \/ \E i \in 1..MaxOps : resolveUpdateRating(i)

RatingSpec == StoreInit /\ [][RatingNext]_vars

(* persistence of a session's paper: page events and heartbeats while store calls fail *)
RetryNext ==
  \/ handleStartSession([sourceId |-> "arxiv", paperId |-> "2301.00001"])
  \/ \E k \in Keys : handlePaperMetadata(Metadata(k, "T1"))
  \/ handleSessionHeartbeat
  \/ \E i \in 1..MaxOps : getOrCreateLookup(i)
  \/ \E i \in 1..MaxOps : getOrCreateCreate(i)

RetrySpec == StoreInit /\ [][RetryNext]_vars

(* the members of self.__DEBUG__ *)
DebugMembers ==
  {"paperManager", "sessionService", "popupManager", "sourceManager", "getGithubClient",
   "getCurrentPaper", "getSessionStats", "getSources", "forceEndSession"}

(* a member of self.__DEBUG__ is read or called; forceEndSession is *)
(* sessionService?.endSession()                                      *)
debugCall(member) ==
  /\ initPc = "done"
  /\ IF member = "forceEndSession" /\ sessionService /\ getCurrentSession # 0
     THEN /\ sessions' = endSession(sessions, current, now)
          /\ current' = 0
     ELSE UNCHANGED <<sessions, current>>
  /\ lastEvent' = [type |-> member, hadActive |-> (current # 0)]
  /\ UNCHANGED <<now, globalVars, hbLog, cache, storeVars>>
  /\ UNCHANGED registryVars

(* the inspection surface used while sessions run and metadata arrives *)
DebugNext ==
  \/ \E k \in Keys : handleStartSession(k)
  \/ handlePaperMetadata(Metadata([sourceId |-> "arxiv", paperId |-> "2301.00001"], "T1"))
  \/ \E i \in 1..MaxOps : getOrCreateLookup(i)
  \/ \E i \in 1..MaxOps : getOrCreateCreate(i)
  \/ \E member \in DebugMembers : debugCall(member)

DebugSpec == StoreInit /\ [][DebugNext]_vars

(* the answer a, kept together with the one before it when that was for the same URL *)
Remember(as, a) ==
  IF as # <<>> /\ as[Len(as)].url = a.url THEN <<as[Len(as)], a>> ELSE <<a>>

(* variant: the source that answered is moved to the front of the custom sources *)
handleIdentifySourceReorder(url) ==
  /\ listening
  /\ answers' = Remember(answers, [url |-> url, response |-> identifyResponse(sourceManager, url)])
  /\ LET srcs == sourceManager.customSources
         hit == {i \in DOMAIN srcs : canHandleUrl(srcs[i], url)}
     IN sourceManager' =
          IF hit = {} THEN sourceManager
          ELSE LET i == CHOOSE i \in hit : \A j \in hit : i >= j
               IN [sourceManager EXCEPT
                     !.customSources = <<srcs[i]>> \o SelectSeq(srcs, LAMBDA x : x.id # srcs[i].id)]
  /\ UNCHANGED <<now, globalVars, sessions, current, hbLog, cache, storeVars, lastEvent>>
  /\ UNCHANGED <<sourcePatterns, defaultRule, changes, loading, options>>

(* message identifySource *)
handleIdentifySource(url) ==
  /\ listening
  /\ answers' = Remember(answers, [url |-> url, response |-> identifyResponse(sourceManager, url)])
  /\ UNCHANGED <<now, globalVars, sessions, current, hbLog, cache, storeVars, lastEvent>>
  /\ UNCHANGED <<sourceManager, sourcePatterns, defaultRule, changes, loading, options>>

(* a pattern is registered with the source manager: sourceManager.registerCustomSource(pattern) *)
register(pattern) ==
  /\ sourceManager.created
  /\ changes < MaxChanges
  /\ changes' = changes + 1
  /\ sourceManager' = registerCustomSource(sourceManager, pattern)
  /\ answers' = <<>>
  /\ UNCHANGED <<now, globalVars, sessions, current, hbLog, cache, storeVars, lastEvent>>
  /\ UNCHANGED <<sourcePatterns, defaultRule, loading, options>>

(* chrome.storage.onChanged listener: a change of sourcePatterns *)
onSourcePatternsChanged(newValue) ==
  /\ newValue # sourcePatterns
  /\ changes < MaxChanges
  /\ changes' = changes + 1
  /\ sourcePatterns' = newValue
  /\ sourceManager' = IF sourceManager.created
                      THEN handleStorageChanges(sourceManager, newValue) ELSE sourceManager
  /\ answers' = <<>>
  /\ UNCHANGED <<now, globalVars, sessions, current, hbLog, cache, storeVars, lastEvent>>
  /\ UNCHANGED <<defaultRule, loading, options>>

(* values of the sourcePatterns key: none, or one of the lists *)
StoredValues == {<<>>} \cup {<<l>> : l \in PatternLists}

(* the states initialize() leaves, whatever source patterns storage holds *)
IdentifyInit ==
  /\ ServicesReady
  /\ storage.githubToken # ""
  /\ sourcePatterns \in StoredValues
  /\ \E readOk \in BOOLEAN :
       sourceManager = loadPatternsFromStorage(NewManager, sourcePatterns, readOk)
  /\ answers = <<>>
  /\ defaultRule \in DefaultRules
  /\ changes = 0
  /\ loading = NoRead
  /\ options = NoOptions

(* source identification: identifySource requests while patterns are registered and replaced *)
IdentifyNext ==
  \/ \E u \in Urls : handleIdentifySource(u)
  \/ \E p \in UserPatterns : register(p)
  \/ \E nv \in StoredValues : onSourcePatternsChanged(nv)
  \/ handleStartSession([sourceId |-> "arxiv", paperId |-> "2301.00001"])

IdentifySpec == IdentifyInit /\ [][IdentifyNext]_vars

(* the state when the module has been evaluated: the storage listener is registered, *)
(* initialize() has not run yet, storage holds any of the values                     *)
LoadInit ==
  /\ now = 0
  /\ storage = [githubToken |-> "tok", githubRepo |-> "repo"]
  /\ githubToken = ""
  /\ githubRepo = ""
  /\ paperManager = FALSE
  /\ sessionService = FALSE
  /\ listening = FALSE
  /\ initPc = "start"
  /\ sessions = <<>>
  /\ current = 0
  /\ hbLog = <<>>
  /\ cache = [k \in Keys |-> NoMeta]
  /\ store = <<>>
  /\ ops = <<>>
  /\ issued = 0
  /\ lastDone = NoOp
  /\ notFound = {}
  /\ lastEvent = [type |-> "none", hadActive |-> FALSE]
  /\ sourceManager = NoManager
  /\ sourcePatterns \in StoredValues
  /\ answers = <<>>
  /\ defaultRule = "first"
  /\ changes = 0
  /\ loading = NoRead
  /\ options = NoOptions

(* start-up: the source patterns are loaded while the options page may write them *)
LoadNext ==
  \/ initializeSources
  \/ storageGet
  \/ resumeLoadPatterns
  \/ resumeInitialize
  \/ \E nv \in StoredValues : onSourcePatternsChanged(nv)
  \/ \E u \in Urls : handleIdentifySource(u)

LoadSpec == LoadInit /\ [][LoadNext]_vars

-----------------------------------------------------------------------------
(* The options page.  The repository holds three versions of it: the table  *)
(* editor of dist/options.bundle.js, the pattern containers of options.ts   *)
(* and the JSON text area of the earlier options.ts.  A pattern is the      *)
(* record of its four text fields; "(" is a text that new RegExp() rejects  *)
(* and " " a text that trim() empties.                                      *)

MaxPending == 1

OptionsPattern(id, name, urlPattern, idRegex) ==
  [id |-> id, name |-> name, urlPattern |-> urlPattern, idRegex |-> idRegex]

(* const DEFAULT_PATTERNS of the options page, as the script defines it *)
OPTIONS_DEFAULT_PATTERNS ==
  <<OptionsPattern("arxiv", "arXiv", "arxiv\\.org\\/(abs|pdf)\\/([0-9]+\\.[0-9]+)",
                   "arxiv\\.org\\/(abs|pdf)\\/([0-9]+\\.[0-9]+)"),
    OptionsPattern("doi", "DOI", "doi\\.org\\/([\\w\\.\\-\\/]+)",
                   "doi\\.org\\/([\\w\\.\\-\\/]+)")>>

(* an index of a JavaScript array that holds no element *)
Hole == [hole |-> TRUE]

(* text.trim() *)
Trim(text) == IF text = " " THEN "" ELSE text

(* new RegExp(text) returns instead of throwing *)
Parses(text) == text # "("

(* what the user types into the four fields of the pattern form *)
FormEntries ==
  {OptionsPattern(id, "N", urlPattern, idRegex) :
     id \in {"", " ", "doi"}, urlPattern \in {"(", "u"}, idRegex \in {"", "u"}}

UserX == OptionsPattern("x", "N", "u", "u")
UserDoi == OptionsPattern("doi", "N", "u", "u")

(* the lists a settings file can hold *)
ImportFiles ==
  {<<UserX>>, <<UserDoi, UserX, OPTIONS_DEFAULT_PATTERNS[1]>>, <<UserX, UserX>>}

(* the lists the pattern containers or the JSON text area can hold *)
FormLists ==
  ImportFiles \cup
  {<<>>, <<UserX, OptionsPattern("doi", "", "u", "u")>>,
   <<OptionsPattern("", "N", "u", "u")>>, <<OptionsPattern("x", "N", "", "u")>>,
   <<OptionsPattern("x", "N", "u", " ")>>, <<OptionsPattern("x", "N", "(", "u")>>}

(* the texts the JSON text area can hold: a list, a value that is no list, no JSON *)
JsonTexts ==
  {[json |-> "array", items |-> list] : list \in FormLists}
    \cup {[json |-> kind, items |-> <<>>] : kind \in {"object", "string", "garbage"}}

(* the values of the sourcePatterns key when the page is opened *)
OptionsStored == {<<>>, << <<OPTIONS_DEFAULT_PATTERNS[2]>> >>}

HasDuplicateIds(list) ==
  \E i, j \in DOMAIN list : i < j /\ list[i].id = list[j].id

(* variant of validateSettings without the check for duplicate ids *)
validateSettingsNoDuplicates(credentialsOk, isArray, list) ==
  IF ~credentialsOk THEN "Invalid GitHub token or repository"
  ELSE IF ~isArray \/ Len(list) = 0 THEN "At least one URL pattern is required"
  ELSE IF \E i \in DOMAIN list : list[i] = Hole THEN "TypeError"
  ELSE IF \E i \in DOMAIN list :
            "" \in {list[i].id, list[i].name, list[i].urlPattern, list[i].idRegex}
    THEN "Each pattern must have all fields"
  ELSE IF \E i \in DOMAIN list : ~Parses(list[i].urlPattern) \/ ~Parses(list[i].idRegex)
    THEN "Invalid pattern"
  ELSE "ok"

(* validateSettings(settings): the name of the error thrown, "ok" when it returns *)
validateSettings(credentialsOk, isArray, list) ==
  IF ~credentialsOk THEN "Invalid GitHub token or repository"
  ELSE IF ~isArray \/ Len(list) = 0 THEN "At least one URL pattern is required"
  ELSE IF \E i \in DOMAIN list : list[i] = Hole THEN "TypeError"
  ELSE IF HasDuplicateIds(list) THEN "Duplicate source ID"
  ELSE IF \E i \in DOMAIN list :
            "" \in {list[i].id, list[i].name, list[i].urlPattern, list[i].idRegex}
    THEN "Each pattern must have all fields"
  ELSE IF \E i \in DOMAIN list : ~Parses(list[i].urlPattern) \/ ~Parses(list[i].idRegex)
    THEN "Invalid pattern"
  ELSE "ok"

(* the state of the page's script once DOMContentLoaded has been handled *)
setFormValues(version, stored, readOk) ==
  LET fromDefaults == ~readOk \/ stored = <<>>
  IN  [open |-> TRUE,
       version |-> version,
       defaults |-> OPTIONS_DEFAULT_PATTERNS,
       currentPatterns |-> IF version # "editor" THEN <<>>
                           ELSE IF fromDefaults THEN OPTIONS_DEFAULT_PATTERNS
                           ELSE stored[1],
       aliased |-> version = "editor" /\ fromDefaults,
       editingIndex |-> 0,
       chosen |-> Hole,
       pending |-> <<>>,
       status |-> ""]

(* an assignment to an element of the array currentPatterns refers to, or a splice or *)
(* push on it: DEFAULT_PATTERNS changes with it when it is the same array             *)
Mutate(o, list) ==
  [o EXCEPT !.currentPatterns = list,
            !.defaults = IF o.aliased THEN list ELSE @]

(* currentPatterns = list: the variable refers to another array, the validations in *)
(* flight keep the array they were given                                            *)
Assign(o, list) ==
  [o EXCEPT !.currentPatterns = list,
            !.aliased = FALSE,
            !.pending = [k \in DOMAIN @ |->
                           IF @[k].ref = "current"
                           THEN [@[k] EXCEPT !.ref = "value", !.value = o.currentPatterns]
                           ELSE @[k]]]

clearPatternForm(o) == [o EXCEPT !.editingIndex = 0, !.chosen = Hole]

Splice(list, index) == SubSeq(list, 1, index - 1) \o SubSeq(list, index + 1, Len(list))

(* list[index] = pattern, the array growing when index is past its end *)
StoreAt(list, index, pattern) ==
  [i \in 1..(IF index > Len(list) THEN index ELSE Len(list)) |->
     IF i = index THEN pattern ELSE IF i <= Len(list) THEN list[i] ELSE Hole]

(* variant: the duplicate check is made only when a pattern is added *)
hasDuplicateWhenAdding(o, sourceId) ==
  /\ o.editingIndex = 0
  /\ \E i \in DOMAIN o.currentPatterns :
       o.currentPatterns[i] # Hole /\ o.currentPatterns[i].id = sourceId

(* currentPatterns.some((pattern, index) => pattern.id === sourceId && index !== editingIndex) *)
hasDuplicate(o, sourceId) ==
  \E i \in DOMAIN o.currentPatterns :
    /\ o.currentPatterns[i] # Hole
    /\ o.currentPatterns[i].id = sourceId
    /\ i # o.editingIndex

pageFrame == <<now, globalVars, sessions, current, hbLog, cache, storeVars, lastEvent,
               sourceManager, answers, defaultRule, changes, loading>>

(* DOMContentLoaded: loadSettings() and setFormValues(settings) *)
openOptions(version) ==
  /\ ~options.open
  /\ \E readOk \in BOOLEAN : options' = setFormValues(version, sourcePatterns, readOk)
  /\ UNCHANGED <<pageFrame, sourcePatterns>>

(* the Edit button of a row of the table *)
editPattern(index) ==
  /\ options.open /\ options.version = "editor"
  /\ index \in DOMAIN options.currentPatterns
  /\ options.currentPatterns[index] # Hole
  /\ options' = [options EXCEPT !.editingIndex = index,
                                !.chosen = options.currentPatterns[index]]
  /\ UNCHANGED <<pageFrame, sourcePatterns>>

(* the Remove button of a row of the table, confirmed *)
removePattern(index) ==
  /\ options.open /\ options.version = "editor"
  /\ index \in DOMAIN options.currentPatterns
  /\ options.currentPatterns[index] # Hole
  /\ LET spliced == Mutate(options, Splice(options.currentPatterns, index))
         adjusted == IF options.editingIndex = index THEN clearPatternForm(spliced)
                     ELSE IF options.editingIndex # 0 /\ options.editingIndex > index
                       THEN [spliced EXCEPT !.editingIndex = @ - 1]
                     ELSE spliced
     IN  options' = [adjusted EXCEPT !.status = "Pattern removed successfully"]
  /\ UNCHANGED <<pageFrame, sourcePatterns>>

(* the Add Pattern / Save Changes button, with the texts of the four fields *)
addOrUpdatePattern(entry) ==
  /\ options.open /\ options.version = "editor"
  /\ LET sourceId == Trim(entry.id)
         pattern == OptionsPattern(sourceId, Trim(entry.name), Trim(entry.urlPattern),
                                   Trim(entry.idRegex))
     IN  options' =
           IF "" \in {pattern.id, pattern.name, pattern.urlPattern, pattern.idRegex}
             THEN [options EXCEPT !.status = "All fields are required"]
           ELSE IF ~Parses(pattern.urlPattern) \/ ~Parses(pattern.idRegex)
             THEN [options EXCEPT !.status = "Invalid regular expression"]
           ELSE IF hasDuplicate(options, sourceId)
             THEN [options EXCEPT !.status = "Source ID is already used"]
           ELSE IF options.editingIndex # 0
             THEN [clearPatternForm(Mutate(options,
                      StoreAt(options.currentPatterns, options.editingIndex, pattern)))
                     EXCEPT !.status = "Pattern updated"]
           ELSE [clearPatternForm(Mutate(options, Append(options.currentPatterns, pattern)))
                   EXCEPT !.status = "Pattern added"]
  /\ UNCHANGED <<pageFrame, sourcePatterns>>

(* Import Settings, a file chosen: the handler waits for the file's text and for the *)
(* validation of its settings                                                        *)
importSettings(list) ==
  /\ options.open /\ options.version = "editor"
  /\ Len(options.pending) < MaxPending
  /\ options' = [options EXCEPT !.pending =
                   Append(@, [kind |-> "import", ref |-> "value", value |-> list,
                              isArray |-> TRUE, wasEmpty |-> FALSE])]
  /\ UNCHANGED <<pageFrame, sourcePatterns>>

(* the array a validation in flight was given, as it is now *)
Given(o, p) ==
  IF p.ref = "current" THEN o.currentPatterns
  ELSE IF p.ref = "defaults" THEN o.defaults
  ELSE p.value

Without(seq, k) == SubSeq(seq, 1, k - 1) \o SubSeq(seq, k + 1, Len(seq))

(* importSettings resumes when validateSettings(settings) has settled *)
resumeImportSettings(k) ==
  /\ options.open
  /\ k \in DOMAIN options.pending
  /\ options.pending[k].kind = "import"
  /\ \E credentialsOk \in BOOLEAN :
       LET p == options.pending[k]
           verdict == validateSettings(credentialsOk, p.isArray, Given(options, p))
           rest == [options EXCEPT !.pending = Without(@, k)]
       IN  options' =
             IF verdict = "ok"
             THEN [Assign(rest, p.value) EXCEPT !.status = "Settings imported successfully!"]
             ELSE [rest EXCEPT !.status = verdict]
  /\ UNCHANGED <<pageFrame, sourcePatterns>>

(* getFormValues() of the table editor *)
getFormValues(o) ==
  [kind |-> "save",
   ref |-> IF Len(o.currentPatterns) > 0 /\ ~o.aliased THEN "current" ELSE "defaults",
   value |-> <<>>,
   isArray |-> TRUE,
   wasEmpty |-> Len(o.currentPatterns) = 0]

Complete(entry) == "" \notin {Trim(entry.id), Trim(entry.name), Trim(entry.urlPattern),
                              Trim(entry.idRegex)}

TrimAll(entries) ==
  [i \in DOMAIN entries |->
     OptionsPattern(Trim(entries[i].id), Trim(entries[i].name),
                    Trim(entries[i].urlPattern), Trim(entries[i].idRegex))]

(* getFormValues() of options.ts: the pattern containers whose four fields are filled *)
getContainerValues(entries) ==
  LET filled == TrimAll(SelectSeq(entries, Complete))
  IN  [kind |-> "save", ref |-> "value",
       value |-> IF Len(filled) > 0 THEN filled ELSE OPTIONS_DEFAULT_PATTERNS,
       isArray |-> TRUE,
       wasEmpty |-> Len(filled) = 0]

(* the Save button of the table editor, up to the await in validateSettings *)
saveButtonClicked ==
  /\ options.open /\ options.version = "editor"
  /\ Len(options.pending) < MaxPending
  /\ options' = [options EXCEPT !.pending = Append(@, getFormValues(options))]
  /\ UNCHANGED <<pageFrame, sourcePatterns>>

(* the Save button of options.ts, with the pattern containers as they are filled *)
saveContainersClicked(entries) ==
  /\ options.open /\ options.version = "containers"
  /\ Len(options.pending) < MaxPending
  /\ options' = [options EXCEPT !.pending = Append(@, getContainerValues(entries))]
  /\ UNCHANGED <<pageFrame, sourcePatterns>>

(* saveSettingsFromForm() of the JSON text area, up to the await in validateSettings *)
saveSettingsFromForm(text) ==
  /\ options.open /\ options.version = "json"
  /\ Len(options.pending) < MaxPending
  /\ options' =
       IF text.json = "garbage"
       THEN [options EXCEPT !.status = "Invalid JSON format for patterns"]
       ELSE [options EXCEPT !.pending =
               Append(@, [kind |-> "save", ref |-> "value",
                          value |-> IF text.json = "array" /\ Len(text.items) > 0
                                    THEN text.items
                                    ELSE IF text.json = "string" THEN <<>>
                                    ELSE OPTIONS_DEFAULT_PATTERNS,
                          isArray |-> text.json # "string",
                          wasEmpty |-> text.json = "array" /\ Len(text.items) = 0])]
  /\ UNCHANGED <<pageFrame, sourcePatterns>>

(* the save handler resumes when validateSettings(settings) has settled, and calls *)
(* saveSettings(settings) when it returned                                         *)
resumeSave(k) ==
  /\ options.open
  /\ k \in DOMAIN options.pending
  /\ options.pending[k].kind = "save"
  /\ \E credentialsOk, writeOk \in BOOLEAN :
       LET p == options.pending[k]
           verdict == validateSettings(credentialsOk, p.isArray, Given(options, p))
           rest == [options EXCEPT !.pending = Without(@, k)]
       IN  IF verdict = "ok" /\ writeOk
           THEN /\ sourcePatterns' = <<Given(options, p)>>
                /\ options' = [rest EXCEPT !.status = "Settings saved successfully!"]
           ELSE /\ options' = [rest EXCEPT !.status =
                                 IF verdict = "ok" THEN "Error saving settings" ELSE verdict]
                /\ UNCHANGED sourcePatterns
  /\ UNCHANGED pageFrame

OptionsInit ==
  /\ now = 0
  /\ storage = [githubToken |-> "tok", githubRepo |-> "repo"]
  /\ githubToken = ""
  /\ githubRepo = ""
  /\ paperManager = FALSE
  /\ sessionService = FALSE
  /\ listening = FALSE
  /\ initPc = "start"
  /\ sessions = <<>>
  /\ current = 0
  /\ hbLog = <<>>
  /\ cache = [k \in Keys |-> NoMeta]
  /\ store = <<>>
  /\ ops = <<>>
  /\ issued = 0
  /\ lastDone = NoOp
  /\ notFound = {}
  /\ lastEvent = [type |-> "none", hadActive |-> FALSE]
  /\ sourceManager = NoManager
  /\ sourcePatterns \in OptionsStored
  /\ answers = <<>>
  /\ defaultRule = "first"
  /\ changes = 0
  /\ loading = NoRead
  /\ options = NoOptions

(* the table editor: patterns are edited, added, removed and imported *)
EditorNext ==
  \/ openOptions("editor")
  \/ \E index \in 1..4 : editPattern(index)
  \/ \E index \in 1..4 : removePattern(index)
  \/ \E entry \in FormEntries : addOrUpdatePattern(entry)
  \/ \E list \in ImportFiles : importSettings(list)
  \/ \E k \in 1..MaxPending : resumeImportSettings(k)

EditorSpec == OptionsInit /\ [][EditorNext]_vars

(* the options page in its three versions: the settings are saved while the *)
(* patterns of the table editor are added, removed and imported             *)
OptionsNext ==
  \/ \E version \in {"editor", "containers", "json"} : openOptions(version)
  \/ \E index \in 1..4 : removePattern(index)
  \/ \E entry \in FormEntries : addOrUpdatePattern(entry)
  \/ importSettings(<<UserX>>)
  \/ \E k \in 1..MaxPending : resumeImportSettings(k)
  \/ saveButtonClicked
  \/ \E list \in FormLists : saveContainersClicked(list)
  \/ \E text \in JsonTexts : saveSettingsFromForm(text)
  \/ \E k \in 1..MaxPending : resumeSave(k)

OptionsSpec == OptionsInit /\ [][OptionsNext]_vars

-----------------------------------------------------------------------------
(* Session lifecycle properties *)

ActiveSessions == {i \in DOMAIN sessions : IsActive(sessions[i])}

(* C1: at most one session is Active in any reachable state, and it is the one the *)
(* service points at: a start delivered while a session is Active ends it first.   *)
C1_AtMostOneActive ==
  /\ Cardinality(ActiveSessions) <= 1
  /\ \A i \in ActiveSessions : i = current

C1_Witness ==
  /\ lastEvent = [type |-> "startSession", hadActive |-> TRUE]
  /\ Len(sessions) >= 2
  /\ current = Len(sessions)
  /\ IsEnded(sessions[Len(sessions) - 1])
  /\ IsActive(sessions[current])

(* C2: when a session is started while another one is Active, the old session gets *)
(* its endedAt, not later than the new session's startedAt, and its duration is    *)
(* finalised by a last accrual before the new session becomes the current one.      *)
C2_StartEndsPrevious ==
  [][(current # 0 /\ Len(sessions') = Len(sessions) + 1)
       => LET old == sessions'[current]
              new == sessions'[Len(sessions')]
          IN /\ IsEnded(old)
             /\ old.endedAt[1] <= new.startedAt
             /\ old.accumulatedActiveMs =
                  sessions[current].accumulatedActiveMs
                    + (IF now - sessions[current].lastHeartbeatAt < MaxGapMs
                       THEN now - sessions[current].lastHeartbeatAt ELSE MaxGapMs)
             /\ current' = Len(sessions')
             /\ ~IsEnded(new)]_vars

C2_Witness ==
  /\ lastEvent = [type |-> "startSession", hadActive |-> TRUE]
  /\ Len(sessions) >= 2
  /\ current = Len(sessions)
  /\ IsEnded(sessions[current - 1])
  /\ sessions[current - 1].endedAt[1] = sessions[current].startedAt
  /\ sessions[current - 1].accumulatedActiveMs > 0
  /\ KeyOf(sessions[current - 1]) # KeyOf(sessions[current])

(* C3: a heartbeat on the Active session adds exactly min(now - lastHeartbeatAt,   *)
(* maxGapMs) and sets lastHeartbeatAt to now; a session's accumulated time never   *)
(* exceeds the wall-clock time since its start.                                    *)
C3_HeartbeatAccrual ==
  [][/\ (current # 0 /\ Len(hbLog') = Len(hbLog) + 1)
          => LET gap == now - sessions[current].lastHeartbeatAt
                 add == sessions'[current].accumulatedActiveMs
                          - sessions[current].accumulatedActiveMs
             IN /\ add = (IF gap < MaxGapMs THEN gap ELSE MaxGapMs)
                /\ add <= MaxGapMs
                /\ sessions'[current].lastHeartbeatAt = now
     /\ \A i \in DOMAIN sessions' :
          sessions'[i].accumulatedActiveMs
            <= (IF IsEnded(sessions'[i]) THEN sessions'[i].endedAt[1] ELSE now')
                 - sessions'[i].startedAt]_vars

C3_Witness ==
  /\ lastEvent = [type |-> "sessionHeartbeat", hadActive |-> TRUE]
  /\ current # 0
  /\ hbLog # <<>>
  /\ sessions[current].lastHeartbeatAt = now
  /\ sessions[current].accumulatedActiveMs = MaxGapMs
  /\ now - sessions[current].startedAt > MaxGapMs

(* C4: start("arxiv","2301.00001"), a heartbeat 30 s later, a second heartbeat     *)
(* 30 s after the first, then end: the session's accumulatedActiveMs is 60000.     *)
C4_Scenario(s) ==
  /\ s.sourceId = "arxiv"
  /\ s.paperId = "2301.00001"
  /\ hbLog = <<s.startedAt + 30000, s.startedAt + 60000>>
  /\ s.endedAt = <<s.startedAt + 60000>>

C4_ScenarioYields60000 ==
  sessions # <<>> /\ C4_Scenario(sessions[Len(sessions)])
    => sessions[Len(sessions)].accumulatedActiveMs = 60000

C4_Witness ==
  /\ sessions # <<>>
  /\ C4_Scenario(sessions[Len(sessions)])
  /\ lastEvent = [type |-> "endSession", hadActive |-> TRUE]
  /\ sessions[Len(sessions)].accumulatedActiveMs = 60000

(* the heartbeats recorded on the current session are N >= 2, spaced d apart, d < maxGapMs *)
EvenlySpaced(d) ==
  /\ current # 0
  /\ Len(hbLog) >= 2
  /\ d < MaxGapMs
  /\ \A j \in 1..(Len(hbLog) - 1) : hbLog[j + 1] - hbLog[j] = d

(* C5 as stated: after N heartbeats spaced d apart (d < maxGapMs) the accumulated  *)
(* time is (N-1) * d.                                                              *)
C5_Original ==
  \A d \in Durations :
    EvenlySpaced(d) => sessions[current].accumulatedActiveMs = (Len(hbLog) - 1) * d

(* C5 amended: after N heartbeats spaced d apart (d < maxGapMs) the accumulated    *)
(* time is (N-1) * d plus the capped gap between the start and the first heartbeat.*)
C5_Amended ==
  \A d \in Durations :
    EvenlySpaced(d) =>
      LET first == hbLog[1] - sessions[current].startedAt
      IN sessions[current].accumulatedActiveMs
           = (IF first < MaxGapMs THEN first ELSE MaxGapMs) + (Len(hbLog) - 1) * d

C5_Witness ==
  /\ \E d \in Durations : EvenlySpaced(d)
  /\ Len(hbLog) = 3
  /\ hbLog[1] > sessions[current].startedAt
  /\ sessions[current].lastHeartbeatAt = hbLog[3]

(* C6: a heartbeat or an end delivered while no session is Active changes nothing: *)
(* no session is created, and sessions, cache and store stay as they were.          *)
C6_IdleNoOp ==
  [][((handleSessionHeartbeat \/ \E r \in Reasons : handleEndSession(r)) /\ current = 0)
       => /\ sessions' = sessions
          /\ current' = 0
          /\ UNCHANGED <<hbLog, cache, store, ops, lastDone>>]_vars

C6_Witness ==
  /\ lastEvent.type \in {"sessionHeartbeat", "endSession"}
  /\ ~lastEvent.hadActive
  /\ sessions # <<>>
  /\ IsEnded(sessions[Len(sessions)])
  /\ now > sessions[Len(sessions)].endedAt[1]
  /\ current = 0

(* C7: an ended session never changes again, and a start always appends a fresh    *)
(* Active session with accumulatedActiveMs = 0 instead of reviving an ended one.   *)
C7_EndedIsTerminal ==
  [][/\ \A i \in DOMAIN sessions :
          IsEnded(sessions[i]) => i \in DOMAIN sessions' /\ sessions'[i] = sessions[i]
     /\ Len(sessions') >= Len(sessions)
     /\ Len(sessions') > Len(sessions)
          => /\ Len(sessions') = Len(sessions) + 1
             /\ sessions'[Len(sessions')].accumulatedActiveMs = 0
             /\ sessions'[Len(sessions')].startedAt = now
             /\ sessions'[Len(sessions')].lastHeartbeatAt = now
             /\ IsActive(sessions'[Len(sessions')])]_vars

C7_Witness ==
  /\ Len(sessions) >= 2
  /\ IsEnded(sessions[1])
  /\ sessions[1].accumulatedActiveMs > 0
  /\ KeyOf(sessions[2]) = KeyOf(sessions[1])
  /\ sessions[2].startedAt > sessions[1].endedAt[1]
  /\ sessions[2].accumulatedActiveMs = 0
  /\ lastEvent.type = "startSession"

-----------------------------------------------------------------------------
(* Paper record properties *)

(* C8: whatever the interleaving of the get and create steps of concurrent         *)
(* getOrCreate calls, no two records of the store share a (sourceId, paperId) key.  *)
C8_OneRecordPerKey ==
  \A i, j \in DOMAIN store : store[i].key = store[j].key => i = j

(* C9: getOrCreate for a key that has a record returns that record and leaves the  *)
(* store exactly as it was: no field is overwritten with the caller's metadata.    *)
C9_ExistingRecordUntouched ==
  [][\A i \in DOMAIN ops :
       (getOrCreateLookup(i) /\ Lookup(store, ops[i].key) # 0 /\ lastDone'.outcome = "ok")
         => /\ store' = store
            /\ lastDone'.result = <<store[Lookup(store, ops[i].key)]>>
            /\ lastDone'.key = ops[i].key
            /\ lastDone'.result[1].key = ops[i].key]_vars

C9_Witness ==
  /\ lastDone.kind \in {"paperMetadata", "manualPaperLog"}
  /\ lastDone.outcome = "ok"
  /\ Lookup(store, lastDone.key) # 0
  /\ lastDone.result = <<store[Lookup(store, lastDone.key)]>>
  /\ lastDone.result[1].data.title # lastDone.meta.title

(* C10: when the store answers, saveNotes for a key without a record is answered   *)
(* failure with NotFoundError and creates no record; for a key with a record it is *)
(* answered success and a read of the record shows the event appended last.         *)
C10_AnnotateNeedsRecord ==
  [][\A i \in DOMAIN ops :
       (resumeSaveNotes(i) /\ lastDone'.outcome # "RemoteUnavailableError")
         => LET k == ops[i].key
                idx == Lookup(store, k)
            IN IF idx = 0
               THEN /\ lastDone'.response = "failure"
                    /\ lastDone'.error = "NotFoundError"
                    /\ store' = store
                    /\ cache' = cache
               ELSE /\ lastDone'.response = "success"
                    /\ Lookup(store', k) = idx
                    /\ Len(store') = Len(store)
                    /\ \A j \in DOMAIN store : j # idx => store'[j] = store[j]
                    /\ store'[idx].data = store[idx].data
                    /\ store'[idx].annotations =
                         Append(store[idx].annotations,
                                [kind |-> "notes", value |-> ops[i].notes, timestamp |-> now])]_vars

C10_Witness ==
  /\ lastDone.kind = "saveNotes"
  /\ lastDone.response = "success"
  /\ lastDone.key \in notFound
  /\ Lookup(store, lastDone.key) # 0
  /\ LET r == store[Lookup(store, lastDone.key)]
     IN /\ Len(r.annotations) = 1
        /\ r.annotations[1].kind = "notes"
        /\ r.annotations[1].value = lastDone.notes

C12_AppendOnly ==
  [][\A idx \in DOMAIN store :
       /\ idx \in DOMAIN store'
       /\ store'[idx].key = store[idx].key
       /\ Len(store'[idx].annotations) >= Len(store[idx].annotations)
       /\ \A j \in DOMAIN store[idx].annotations :
            store'[idx].annotations[j] = store[idx].annotations[j]]_vars

C12_Witness ==
  \E idx \in DOMAIN store :
    /\ Len(store[idx].annotations) = 2
    /\ store[idx].annotations[1].kind = "notes"
    /\ store[idx].annotations[2].kind = "rating"
    /\ lastDone.kind = "updateRating"
    /\ lastDone.response = "success"
    /\ lastDone.key = store[idx].key

(* C13: when a store operation issued for key A settles while the current session   *)
(* is for another key B, the cached metadata of B is left as it was: only the entry *)
(* of A can change.                                                                 *)
C13_NoWriteToOtherSession ==
  [][\A i \in DOMAIN ops :
       (/\ \/ getOrCreateLookup(i)
           \/ getOrCreateCreate(i)
           \/ resumeSaveNotes(i)
           \/ resumeUpdateRating(i)
        /\ current # 0
        /\ KeyOf(sessions[current]) # ops[i].key)
         => /\ cache'[KeyOf(sessions[current])] = cache[KeyOf(sessions[current])]
            /\ \A k \in Keys : k # ops[i].key => cache'[k] = cache[k]
            /\ UNCHANGED <<sessions, current>>]_vars

C13_Witness ==
  /\ lastDone.kind = "updateRating"
  /\ lastDone.response = "success"
  /\ current # 0
  /\ KeyOf(sessions[current]) # lastDone.key
  /\ cache[KeyOf(sessions[current])] # NoMeta
  /\ cache[KeyOf(sessions[current])].rating = "novote"
  /\ cache[lastDone.key].rating = lastDone.notes

-----------------------------------------------------------------------------
(* Source identification properties *)

ArxivUrl == <<"arxiv.org", "abs", "2301.00001">>

(* the identifySource answer given last, for a registry that has not changed since *)
LastAnswer == answers[Len(answers)]

(* the sources identify goes through, in its order *)
Listed == getAllSources(sourceManager)

(* C14: identifySource on https://arxiv.org/abs/2301.00001 with the default arXiv   *)
(* pattern answers sourceId "arxiv" and paperId "2301.00001".                       *)
C14_ArxivScenario ==
  (/\ answers # <<>>
   /\ LastAnswer.url = ArxivUrl
   /\ Listed = DEFAULT_PATTERNS)
    => /\ LastAnswer.response.success
       /\ LastAnswer.response.sourceId = "arxiv"
       /\ LastAnswer.response.paperId = <<"2301.00001">>

(* C15: when the idRegex of the pattern that decides a URL matches with at least    *)
(* one capture group, the paperId answered is its first capture group.              *)
C15_FirstCaptureGroup ==
  answers # <<>> =>
    LET u == LastAnswer.url
        i == FirstMatching(Listed, u)
    IN (i # 0 /\ Listed[i].idRegex.ok /\ Len(Match(u, Listed[i].idRegex)) > 1)
         => /\ LastAnswer.response.success
            /\ LastAnswer.response.sourceId = Listed[i].id
            /\ LastAnswer.response.paperId = Match(u, Listed[i].idRegex)[2]

C15_Witness ==
  /\ answers # <<>>
  /\ LastAnswer.response.success
  /\ LET u == LastAnswer.url
         i == FirstMatching(Listed, u)
     IN /\ i # 0
        /\ Listed[i].idRegex.ok
        /\ Len(Match(u, Listed[i].idRegex)) = 3
        /\ Match(u, Listed[i].idRegex)[2] # Match(u, Listed[i].idRegex)[3]
        /\ LastAnswer.response.paperId = Match(u, Listed[i].idRegex)[2]
        /\ LastAnswer.response.paperId # Match(u, Listed[i].idRegex)[1]

C17_FallbackToDefaultRule ==
  answers # <<>> =>
    LET u == LastAnswer.url
        i == FirstMatching(Listed, u)
    IN (i # 0 /\ (~Listed[i].idRegex.ok \/ Len(Match(u, Listed[i].idRegex)) <= 1))
         => IF baseExtractPaperId(Listed[i], u) # <<>>
            THEN /\ LastAnswer.response.success
                 /\ LastAnswer.response.sourceId = Listed[i].id
                 /\ LastAnswer.response.paperId = baseExtractPaperId(Listed[i], u)
            ELSE /\ ~LastAnswer.response.success
                 /\ LastAnswer.response.error = "No matching source pattern for URL"

C17_Witness ==
  /\ answers # <<>>
  /\ LastAnswer.response.success
  /\ LastAnswer.response.sourceId = "plain"
  /\ LET i == FirstMatching(Listed, LastAnswer.url)
     IN /\ Listed[i] = UserPlain
        /\ Len(Match(LastAnswer.url, Listed[i].idRegex)) = 1
        /\ LastAnswer.response.paperId = baseExtractPaperId(Listed[i], LastAnswer.url)

(* C18: an identifySource request changes neither the registry nor the sessions,    *)
(* the cached metadata or the store, and a second request for the same URL with no  *)
(* registry change in between gets the answer of the first.                         *)
C18_IdentifyIdempotent ==
  [][(answers' # answers /\ answers' # <<>>)
       => /\ UNCHANGED <<sourceManager, sourcePatterns, sessions, current, hbLog, cache>>
          /\ UNCHANGED <<store, ops, issued>>
          /\ (answers # <<>> /\ LastAnswer.url = answers'[Len(answers')].url)
               => answers'[Len(answers')].response = LastAnswer.response]_vars

C18_Witness ==
  /\ Len(answers) = 2
  /\ answers[1] = answers[2]
  /\ answers[2].response.success
  /\ current # 0
  /\ Len(Listed) >= 2

(* C19: when no registered pattern matches the URL, the answer is the failure       *)
(* 'No matching source pattern for URL' without any source or paper id; no session  *)
(* is started and no store call is issued.                                          *)
C19_NoMatchIsNotFound ==
  [][(/\ answers' # answers
      /\ answers' # <<>>
      /\ \A i \in DOMAIN Listed : ~canHandleUrl(Listed[i], answers'[Len(answers')].url))
       => /\ answers'[Len(answers')].response =
               [success |-> FALSE, sourceId |-> "", paperId |-> <<>>,
                error |-> "No matching source pattern for URL"]
          /\ UNCHANGED <<sessions, current, hbLog, cache, store, ops, issued, lastDone>>]_vars

C19_Witness ==
  /\ answers # <<>>
  /\ ~LastAnswer.response.success
  /\ LastAnswer.response.error = "No matching source pattern for URL"
  /\ LastAnswer.response.sourceId = ""
  /\ Listed # <<>>
  /\ \A i \in DOMAIN Listed : ~canHandleUrl(Listed[i], LastAnswer.url)
  /\ sessions = <<>>
  /\ ops = <<>>

(* C20: registering a pattern under an id that is already in the list replaces the  *)
(* entry: the list keeps its length and its other entries, holds one entry with the *)
(* id, the new pattern, and identify answers for that id with the new expressions.  *)
C20_RegisterReplaces ==
  [][\A p \in UserPatterns :
       (/\ changes' = changes + 1
        /\ sourcePatterns' = sourcePatterns
        /\ p.urlPattern.ok
        /\ \E i \in DOMAIN Listed : Listed[i].id = p.id
        /\ sourceManager' = registerCustomSource(sourceManager, p))
         => LET after == getAllSources(sourceManager')
            IN /\ Len(after) = Len(Listed)
               /\ Cardinality({i \in DOMAIN after : after[i].id = p.id}) = 1
               /\ \E i \in DOMAIN after : after[i] = p
               /\ \A i \in DOMAIN Listed :
                    Listed[i].id # p.id => \E j \in DOMAIN after : after[j] = Listed[i]
               /\ \A u \in Urls :
                    LET r == identifyResponse(sourceManager', u)
                    IN (r.success /\ r.sourceId = p.id)
                         => canHandleUrl(p, u) /\ r.paperId = extractPaperId(p, u)]_vars

C20_Witness ==
  /\ changes > 0
  /\ sourcePatterns = <<>>
  /\ Len(Listed) = Len(DEFAULT_PATTERNS)
  /\ \E i \in DOMAIN Listed : Listed[i] = UserArxiv
  /\ Cardinality({i \in DOMAIN Listed : Listed[i].id = "arxiv"}) = 1
  /\ answers # <<>>
  /\ LastAnswer.url = ArxivUrl
  /\ LastAnswer.response.success
  /\ LastAnswer.response.sourceId = "arxiv"
  /\ LastAnswer.response.paperId = <<"2301.00001">>

-----------------------------------------------------------------------------
(* Registry bookkeeping properties *)

(* the ids of the sources in a list *)
IdsOf(srcs) == {srcs[i].id : i \in DOMAIN srcs}

(* C21: in every state the registry operations leave, the ids tracked as user-defined *)
(* are the ids of the user-defined patterns held: in the map of custom sources and in *)
(* the underlying map of sources. No pattern is held under an id that is no longer    *)
(* tracked, and no id is tracked without a pattern held under it.                     *)
C21_TrackingMatchesStorage ==
  sourceManager.created =>
    /\ IdsOf(sourceManager.customSources) = sourceManager.customSourceIds
    /\ IdsOf(sourceManager.sources) = sourceManager.customSourceIds

(* the value of the sourcePatterns key that holds the empty list *)
EmptyList == << <<>> >>

(* C22: once a change of sourcePatterns to the empty list has been handled, and as    *)
(* long as no pattern has been registered since, every identifySource request is      *)
(* answered with the no-match failure, whatever the URL.                              *)
C22_EmptyReplacementClears ==
  (/\ changes > 0
   /\ sourcePatterns = EmptyList
   /\ sourceManager.customSourceIds = {}
   /\ answers # <<>>)
    => /\ ~LastAnswer.response.success
       /\ LastAnswer.response.error = "No matching source pattern for URL"

(* a pattern other than the built-in one is held as user-defined under the id of b *)
Shadowed(b) ==
  \E i \in DOMAIN sourceManager.customSources :
    sourceManager.customSources[i].id = b.id /\ sourceManager.customSources[i] # b

(* C23: in every state, each built-in pattern whose id is not used by a user pattern  *)
(* is in the list of sources that identify goes through; so a built-in pattern that   *)
(* was shadowed is listed again once the user pattern is no longer held.              *)
C23_BuiltInsPresent ==
  sourceManager.created =>
    \A b \in {DEFAULT_PATTERNS[i] : i \in DOMAIN DEFAULT_PATTERNS} :
      Shadowed(b) \/ \E j \in DOMAIN Listed : Listed[j] = b

-----------------------------------------------------------------------------
(* Registry concurrency properties *)

(* the patterns of a stored value that registerCustomSource accepts, a later one *)
(* taking the place of an earlier one with the same id                           *)
Accepted(value) ==
  LET ok == SelectSeq(IF value = <<>> THEN <<>> ELSE value[1], LAMBDA p : p.urlPattern.ok)
  IN {ok[i] : i \in {j \in DOMAIN ok : \A k \in DOMAIN ok : k > j => ok[k].id # ok[j].id}}

(* the elements of a list *)
Range(seq) == {seq[i] : i \in DOMAIN seq}

-----------------------------------------------------------------------------
(* Error handling properties *)

(* a pattern one of whose expressions cannot be parsed *)
Malformed(p) == ~p.urlPattern.ok \/ ~p.idRegex.ok

(* C25: registering a malformed pattern is rejected: the step leaves the sources held, *)
(* the tracked ids and the list of sources as they were.                               *)
C25_MalformedRejected ==
  [][\A p \in UserPatterns :
       (/\ Malformed(p)
        /\ changes' = changes + 1
        /\ sourcePatterns' = sourcePatterns
        /\ sourceManager' = registerCustomSource(sourceManager, p))
         => /\ sourceManager' = sourceManager
            /\ getAllSources(sourceManager') = Listed]_vars

(* C26: when the getOrCreatePaper call of a paperMetadata event has failed, the sender *)
(* of the event was answered with a failure that carries the error, as the sender of   *)
(* manualPaperLog is: it was not told success for a record that was not persisted.     *)
C26_MetadataFailurePropagates ==
  (/\ lastDone.kind = "paperMetadata"
   /\ lastDone.outcome = "RemoteUnavailableError")
    => /\ lastDone.response = "failure"
       /\ lastDone.error = "RemoteUnavailableError"

(* the last attempt to persist the metadata of key k failed and nothing is under way *)
PersistFailed(k) ==
  /\ paperManager
  /\ lastDone.kind = "paperMetadata"
  /\ lastDone.key = k
  /\ lastDone.outcome = "RemoteUnavailableError"
  /\ Lookup(store, k) = 0
  /\ \A i \in DOMAIN ops : ops[i].key # k

(* C27: when the last attempt to persist the metadata of the current session's paper *)
(* failed, the next heartbeat of that session issues a new persistence attempt for   *)
(* it: a store call for the key is under way after the heartbeat was handled.        *)
C27_HeartbeatRetriesPersistence ==
  [][(/\ current # 0
      /\ PersistFailed(KeyOf(sessions[current]))
      /\ lastEvent'.type = "sessionHeartbeat"
      /\ hbLog' # hbLog)
       => \E i \in DOMAIN ops' : ops'[i].key = KeyOf(sessions[current])]_vars

(* C28: once initialize() has run, whether or not a read failed in it, the message *)
(* listener is registered, so that identifySource, startSession, sessionHeartbeat  *)
(* and endSession requests are handled and answered.                               *)
C28_RequestsStillHandled ==
  initPc # "start" => listening

-----------------------------------------------------------------------------
(* Inspection surface properties *)

(* C29: reading or calling any member of the inspection surface leaves the sessions, *)
(* the current session, the cached metadata, the registry and the store unchanged.   *)
C29_DebugSurfaceReadOnly ==
  [][(/\ lastEvent'.type \in DebugMembers
      /\ lastEvent' # lastEvent
      /\ ops' = ops
      /\ issued' = issued)
       => UNCHANGED <<sessions, current, cache, sourceManager, store>>]_vars

(* C30: once loadPatternsFromStorage() has completed with a successful read, and every *)
(* change of sourcePatterns notified meanwhile has been handled, the custom sources    *)
(* and the tracked ids are those of the value storage holds now, whichever of the two  *)
(* finished last.                                                                      *)
C30_LoadKeepsNewest ==
  (/\ loading.pc = "done"
   /\ loading.ok
   /\ sourcePatterns # <<>>)
    => /\ Range(sourceManager.customSources) = Accepted(sourcePatterns)
       /\ sourceManager.customSourceIds = {p.id : p \in Accepted(sourcePatterns)}

-----------------------------------------------------------------------------
(* Session and credentials properties *)

(* C31: a session leaves Active only by being ended: in every step in which a session *)
(* stops being Active, the step has set its endedAt and the session was not dropped   *)
(* with its service; in particular a change of the credentials does not remove the    *)
(* Active session without ending it.                                                  *)
C31_ActiveLeavesOnlyByEnd ==
  [][\A i \in DOMAIN sessions :
       (IsActive(sessions[i]) /\ ~IsActive(sessions'[i]))
         => (IsEnded(sessions'[i]) /\ ~sessions'[i].discarded)]_vars

(* the step settles an updateRating or saveNotes request: refused at once, or answered *)
(* when its store call has settled                                                     *)
AnnotationSettles ==
  /\ lastDone'.kind \in {"updateRating", "saveNotes"}
  /\ \/ Len(ops') < Len(ops)
     \/ issued' = issued + 1 /\ Len(ops') = Len(ops)

(* C32: when an updateRating or saveNotes request is refused or its store call fails, *)
(* the cached metadata is unchanged and the response reports failure; and a rating or *)
(* a note appears in the cached metadata only in the step in which the store call of  *)
(* that very update succeeded and was answered success.                               *)
C32_CacheFollowsStore ==
  [][/\ (AnnotationSettles /\ lastDone'.outcome # "ok")
          => (cache' = cache /\ lastDone'.response = "failure" /\ lastDone'.error # "")
     /\ \A k \in Keys :
          /\ (cache'[k].rating # cache[k].rating /\ cache'[k].rating \in Ratings)
               => /\ AnnotationSettles
                  /\ lastDone'.kind = "updateRating"
                  /\ lastDone'.key = k
                  /\ lastDone'.outcome = "ok"
                  /\ lastDone'.response = "success"
                  /\ lastDone'.notes = cache'[k].rating
          /\ (cache'[k].notes # cache[k].notes /\ cache'[k].notes \in NoteTexts)
               => /\ AnnotationSettles
                  /\ lastDone'.kind = "saveNotes"
                  /\ lastDone'.key = k
                  /\ lastDone'.outcome = "ok"
                  /\ lastDone'.response = "success"
                  /\ lastDone'.notes = cache'[k].notes]_vars

(* saveNotes failed at the store although the record exists: the notes are not cached *)
C32_Witness ==
  /\ lastDone.kind = "saveNotes"
  /\ lastDone.outcome = "RemoteUnavailableError"
  /\ lastDone.response = "failure"
  /\ lastDone.notes = "n1"
  /\ Lookup(store, lastDone.key) # 0
  /\ cache[lastDone.key] # NoMeta
  /\ cache[lastDone.key].notes = ""

-----------------------------------------------------------------------------
(* Rating order properties *)

(* the ratings appended to the record, in the order of the record's history *)
RatingsOf(rec) == SelectSeq(rec.annotations, LAMBDA ev : ev.kind = "rating")

(* C33: when no request is in flight any more and the updateRating request answered *)
(* last has written its rating to the cached metadata, the cached rating is the     *)
(* rating appended last to the store record of the paper, whatever the order in     *)
(* which the answers of the store calls arrived.                                    *)
C33_CachedRatingIsLatest ==
  (/\ ops = <<>>
   /\ lastDone.kind = "updateRating"
   /\ lastDone.outcome = "ok"
   /\ lastDone.metaLive
   /\ Lookup(store, lastDone.key) # 0)
    => LET history == RatingsOf(store[Lookup(store, lastDone.key)])
       IN /\ history # <<>>
          /\ cache[lastDone.key].rating = history[Len(history)].value

-----------------------------------------------------------------------------
(* Pattern loading properties *)

(* the patterns a load has to leave registered for the result of its read *)
Expected(read) ==
  IF read.ok /\ read.value # <<>> THEN Accepted(read.value)
  ELSE Accepted(<<DEFAULT_PATTERNS>>)

(* C34: when loadPatternsFromStorage() completes, the custom sources and the tracked *)
(* ids are exactly the stored patterns if the read returned a value, and exactly the *)
(* default patterns if storage holds none or the read failed; no pattern registered  *)
(* before the load is among the custom sources or in the list of sources any more.   *)
C34_LoadRegistersExactly ==
  [][(loading.pc = "served" /\ loading'.pc = "done")
       => /\ Range(sourceManager'.customSources) = Expected(loading)
          /\ sourceManager'.customSourceIds = {p.id : p \in Expected(loading)}
          /\ Range(getAllSources(sourceManager')) = Expected(loading)]_vars

(* C35: the step that handles a change of sourcePatterns leaves the registry in the   *)
(* state in which a loadPatternsFromStorage() reading the new storage contents would  *)
(* leave it, also when the change removed the key and the load registers the default  *)
(* patterns.                                                                          *)
C35_ChangeEqualsLoad ==
  [][(sourcePatterns' # sourcePatterns /\ sourceManager.created)
       => sourceManager' = loadPatternsFromStorage(sourceManager, sourcePatterns', TRUE)]_vars

-----------------------------------------------------------------------------
(* Options page properties *)

(* a list is non-empty, its ids are pairwise distinct and every pattern has a *)
(* non-empty id, name, urlPattern and idRegex                                 *)
WellFormed(list) ==
  /\ Len(list) > 0
  /\ \A i \in DOMAIN list :
       /\ list[i] # Hole
       /\ "" \notin {list[i].id, list[i].name, list[i].urlPattern, list[i].idRegex}
  /\ \A i, j \in DOMAIN list : i < j => list[i].id # list[j].id

(* the step settles the save in flight at position k *)
SettlesSave(k) ==
  /\ options.open
  /\ k \in DOMAIN options.pending
  /\ options.pending[k].kind = "save"
  /\ options'.pending = Without(options.pending, k)

(* C36: the options page writes the sourcePatterns key only with a list that      *)
(* validateSettings accepted: every value written is non-empty, has pairwise      *)
(* distinct ids and only patterns with a non-empty id, name, urlPattern and       *)
(* idRegex, and a save that is rejected leaves the stored value unchanged         *)
C36_SavedOnlyWhenValid ==
  [][/\ sourcePatterns' # sourcePatterns
          => /\ sourcePatterns' # <<>>
             /\ WellFormed(sourcePatterns'[1])
             /\ options'.status = "Settings saved successfully!"
     /\ \A k \in 1..MaxPending :
          SettlesSave(k) /\ options'.status # "Settings saved successfully!"
            => UNCHANGED sourcePatterns]_vars

(* a list typed into the JSON text area was saved, and a later save of a list with *)
(* a duplicate id was rejected and left it stored                                  *)
C36_Witness ==
  /\ options.open
  /\ options.version = "json"
  /\ sourcePatterns = << <<UserX>> >>
  /\ options.status = "Duplicate source ID"

DistinctIds(list) ==
  \A i, j \in DOMAIN list :
    i < j /\ list[i] # Hole /\ list[j] # Hole => list[i].id # list[j].id

(* C37: in the pattern editor no two patterns of the list have the same id after *)
(* any sequence of add, edit, save-changes, remove and import operations, and an *)
(* add or update refused for a duplicate id leaves the list unchanged            *)
C37_IdsStayDistinct ==
  [][options'.open
       => /\ DistinctIds(options'.currentPatterns)
          /\ options.open /\ options'.status = "Source ID is already used"
               => options'.currentPatterns = options.currentPatterns]_vars

(* Save Changes was refused: the id typed is held by another row than the one edited *)
C37_Witness ==
  /\ options.open
  /\ options.editingIndex # 0
  /\ options.status = "Source ID is already used"
  /\ Len(options.currentPatterns) = 2

(* C38: editingIndex is null or an index of the current pattern list that still *)
(* designates the pattern the user chose to edit                                *)
C38_EditingIndexDesignatesChosen ==
  options.open /\ options.editingIndex # 0
    => /\ options.editingIndex \in DOMAIN options.currentPatterns
       /\ options.currentPatterns[options.editingIndex] = options.chosen

(* C39: a save begun while the pattern list was empty, and not failed by the    *)
(* credentials check or by the storage write, stores the built-in default       *)
(* patterns arxiv and doi                                                       *)
C39_EmptyListSavesDefaults ==
  [][\A k \in 1..MaxPending :
       /\ SettlesSave(k)
       /\ options.pending[k].wasEmpty
       /\ options'.status \notin {"Invalid GitHub token or repository",
                                     "Error saving settings"}
       => sourcePatterns' = <<OPTIONS_DEFAULT_PATTERNS>>]_vars

====
